---- MODULE Spec2Model ----
\* Scheduling, rendering and connectivity engine of the MatrixPortal S3
\* dashboard: DisplayScheduler (core/scheduler.py), ScreenScheduler and
\* ScreenManager (core/screen_scheduler.py, core/screen_manager.py), the
\* plugin base class (core/plugin_interface.py) and NetworkManager
\* (core/network.py).
\*
\* Time is counted in whole seconds of time.monotonic(). Every coroutine is
\* cut at its await points: one action is the code a task runs between two
\* suspensions. The render cycle is cut finer (one step per widget) and the
\* cooperative event loop is modelled by Suspended: no other task takes a
\* step while the display task is between two of its awaits.
\*
\* Scaling. The display loop (ten frames a second in the code) takes one
\* frame a second, first thing in the second; a pull comes back within the
\* second it was started; in one run the data source of one plugin
\* (faulty) misbehaves, the others answer with a mapping whenever they can
\* be reached.
EXTENDS Integers, Sequences, FiniteSets, TLC

\* ---------------------------------------------------------------- bounds
MaxTime == 9            \* the clock stops advancing here
SlowInterval == 3       \* stands for the minutes-long interval of the network widgets
MaxReconfig == 1        \* update_config calls in one run
MaxRenderFaults == 1    \* render calls that raise in one run
MaxClock == 1100        \* the clock of the connectivity scenario stops here
TimeStep == 100         \* seconds between two looks at the connectivity scenario
MaxFailures == 4        \* consecutive failed reconnections in one run
MaxScreens == 4         \* screens of the screen manager in the rotation scenario
MaxCalls == 5           \* rotate_screen calls in one run of calls
MaxGathers == 2         \* ScreenManager.pull_screen_data calls in one run
MaxVal == 1             \* configuration values are 0..MaxVal
MaxDeclared == 2        \* screens declared in the configuration
MaxStops == 1           \* stop() calls in one run
MaxFailedRuns == 12     \* passes of main()'s loop that fail in a row in one run
MaxSaves == 2           \* save_config calls in one run
MaxUpdates == 3         \* DisplayEngine.update calls in one run
MaxFetches == 2         \* fetch_json calls in one run

\* ------------------------------------------------------ program constants
BootTime == 2                \* main.py BOOT_DELAY: monotonic time is past it at start
ClockInterval == 1           \* clock metadata interval
ErrorBudget == 5             \* "if error_count > 5"
PullCheckPeriod == 1         \* asyncio.sleep(1) / pull_interval
display_rotation_time == 5   \* DisplayScheduler.display_rotation_time
rotation_interval == 5       \* ScreenManager rotation_interval (config default)
DefaultRetryDelay == 5       \* config.get('retry_delay', 5)
retry_count == 3             \* config.get('retry_count', 3): attempts of one connect()
EscalateAfter == 5           \* main: "if restart_count > 5:"
ResetAfter == 10             \* main: "if restart_count > 10:"
ShortWait == 5               \* main: "time.sleep(5)"
LongWait == 30               \* main: "time.sleep(30)"
FetchAttempts == 3           \* fetch_json: "for attempt in range(3)"
FetchRetrySleep == 2         \* fetch_json: "await asyncio.sleep(2)"
MaxBackoff == 300            \* "min(..., 300)  # Max 5 minutes"
FallbackThreshold == 3       \* "self.consecutive_failures >= 3"

\* the retry_delay values a network configuration may carry
RetryDelays == {DefaultRetryDelay, 100, 400}

\* ----------------------------------------------------------- configuration
Plugins == {"clock", "weather", "ticker"}

\* Dashboard._init_plugins adds the plugins the configuration enables.
DashboardPlugins == <<"weather", "clock", "ticker">>

\* ScreenManager.load_screens: the screens and the plugin instances of each.
Screens == <<"main", "alt">>
ScreenPlugins == [main |-> <<"clock", "weather">>, alt |-> <<"ticker">>]

Interval(w) == IF w = "clock" THEN ClockInterval ELSE SlowInterval
\* a push-type plugin (fed by push_callback) next to the pull-type ones
RefreshType(w) == IF w = "ticker" THEN "push" ELSE "pull"
PluginName(w) == w
\* weather, news, ... start their pull with
\* "if not self.network or not self.network.is_connected(): return None"
NetGated(w) == w = "weather"

Keys == {"a", "b"}
\* the key sets of the mappings a pull of w can return
PullKeys(w) == IF w = "clock" THEN {{}, {"a"}, {"b"}} ELSE {{"a"}}

VARIABLES
    sched,            \* which scheduler the dashboard runs: "display" or "screen"
    faulty,           \* the plugin whose data source misbehaves in this run
    screen_count,     \* len(ScreenManager.screens)
    mark_index,       \* current_screen_index where the present run of rotate_screen calls began
    since_mark,       \* rotate_screen calls of the present run
    now,              \* time.monotonic()
    running,          \* scheduler.running
    online,           \* NetworkManager.is_connected()
    \* PluginInterface fields
    enabled, error_count, data, last_update, config_enabled,
    \* DisplayScheduler
    active_plugins,   \* plugin -> PluginTask (next_run, error_count, its asyncio task) or absent
    current_plugin, last_rotation,
    \* ScreenManager / ScreenScheduler
    current_screen_index,
    pull_loop,        \* screen -> state of its _screen_pull_loop coroutine
    gathering,        \* screen -> a pull_screen_data call is suspended in its gather
    gathers,          \* pull_screen_data calls so far
    last_attempt,     \* when the most recent connect() returned (0: never)
    \* PluginManager.create_plugin_instance
    plugin_name, user_config,    \* its arguments
    default_config,              \* metadata.default_config of the class asked for
    instance,                    \* what the call made and returned
    registry_pc,                 \* "idle", or "returned" once the call is over
    \* ScreenManager.load_screens
    screens_config,              \* config['screens'], in the order of its items()
    plugins_config,              \* config['plugins']: name -> "absent", "on" or "off"
    screens,                     \* ScreenManager.screens
    load_pc,                     \* "idle", or "loaded" once load_screens returned
    \* scheduler.stop()
    stop_pc,          \* "none", or the await stop() is suspended in: "display", "gather"
    stops,            \* stop() calls that returned so far
    \* NetworkManager.fetch_json
    fetch_pc,         \* "idle", or "sleep": suspended in its asyncio.sleep(2)
    fetch_attempt,    \* the loop variable 'attempt'
    fetch_wake,       \* when the sleep ends
    fetch_log,        \* what each requests.get of the present call came to
    fetch_result,     \* what the last call returned: "pending", "data" or "None"
    fetches,          \* fetch_json calls that returned so far
    \* display task (either scheduler)
    display_pc, render_idx,
    frame_seen,       \* the display loop has run in the current second
    \* observation
    frame,            \* what the current render tick did so far
    pull_calls,       \* plugin -> number of pull() invocations
    ticks,            \* plugin -> scheduler ticks that examined it while enabled
    only_raised,      \* plugin -> every pull of it that came back so far raised
    reconfigs,        \* update_config calls so far
    render_faults,    \* render calls that raised so far
    \* NetworkManager
    retry_delay, captive_portal_enabled,      \* from the configuration
    radio,                                    \* wifi.radio.connected
    connected, last_connection_attempt, connection_failures,
    consecutive_failures, backoff_delay, captive_portal_active,
    net_pc,               \* where the task that supervises connectivity stands
    reconnect_failures,   \* failed reconnection attempts since the last success
    ap_restarted,         \* start_ap was called while the captive portal was active
    \* main(): the top-level supervisor loop
    main_pc,              \* "off", "loop", "stopped" (KeyboardInterrupt) or "reset"
    restart_count,        \* the local restart_count
    dashboard,            \* the local dashboard is not None
    wdt,                  \* setup_watchdog returned a timer
    last_sleep,           \* seconds of the last time.sleep of the except clause
    failed_runs,          \* passes of the loop that ended in "except Exception" in a row
    \* _screen_pull_loop of one screen that holds two plugin instances
    inst_name,            \* instance -> its metadata.name
    inst_enabled,         \* instance -> plugin.enabled
    inst_errors,          \* instance -> plugin.error_count
    inst_pulled,          \* instance -> when its pull() was last invoked (0: never)
    last_pull_times,      \* the local dict: metadata name -> time, absent names read 0
    inst_idx,             \* instance whose pull() is awaited, 0: asleep
    inst_time,            \* the local current_time of the pass
    inst_wake,            \* when the sleep of the loop ends
    \* ConfigManager and its three files; a content is "absent", "partial"
    \* (no complete JSON document) or a configuration of ConfigVersions
    file_config,          \* config.json
    file_backup,          \* config.json.bak
    file_temp,            \* config.json.tmp
    save_pc,              \* "idle", "backed_up", "writing", "temp_written", "stopped", "recovered"
    saving,               \* the configuration save_config was called with
    save_old,             \* what config.json held when save_config was called
    loaded,               \* what the last load_config returned, "pending" before it
    saves,                \* save_config calls so far
    \* DisplayScheduler.active_plugins under plugin names that share a prefix
    task_names,           \* the keys of active_plugins; a key is a sequence of pieces
    current_name,         \* current_plugin.metadata.name, <<>> for None
    cancelled_names,      \* the keys whose task remove_plugin took out so far
    \* DisplayEngine: the two bitmaps are numbered 1 and 2, 0 is None
    engine_pc,            \* "new", "ready" or "cleaned"
    front_buffer, back_buffer, current_buffer,
    tile_bitmap,          \* tile_grid.bitmap: the bitmap the panel shows
    bitmaps,              \* bitmap -> the plugins drawn into it since it was cleared
    updates               \* update() calls so far

gatherVars == <<gathering, gathers>>
registryVars == <<plugin_name, user_config, default_config, instance, registry_pc>>
loadVars == <<screens_config, plugins_config, screens, load_pc>>
stopVars == <<stop_pc, stops>>
fetchVars == <<fetch_pc, fetch_attempt, fetch_wake, fetch_log, fetch_result, fetches>>
mainVars == <<main_pc, restart_count, dashboard, wdt, last_sleep, failed_runs>>
instVars == <<inst_name, inst_enabled, inst_errors, inst_pulled, last_pull_times,
              inst_idx, inst_time, inst_wake>>
saveVars == <<file_config, file_backup, file_temp, save_pc, saving, save_old, loaded,
              saves>>
prefixVars == <<task_names, current_name, cancelled_names>>
bufVars == <<engine_pc, front_buffer, back_buffer, current_buffer, tile_bitmap, bitmaps,
             updates>>
tailVars == <<prefixVars, bufVars>>
lateVars == <<mainVars, instVars, saveVars, tailVars>>
scenarioVars == <<loadVars, stopVars, fetchVars, lateVars>>
setupVars == <<sched, faulty, screen_count, mark_index, since_mark, gatherVars,
               last_attempt, registryVars, scenarioVars>>
pluginVars == <<enabled, error_count, data, last_update, config_enabled>>
dsVars == <<active_plugins, current_plugin>>
ssVars == <<current_screen_index, pull_loop>>
dispVars == <<display_pc, render_idx, frame, frame_seen>>
obsVars == <<pull_calls, ticks, only_raised>>
envVars == <<reconfigs, render_faults>>
netVars == <<retry_delay, captive_portal_enabled, radio, connected,
             last_connection_attempt, connection_failures, consecutive_failures,
             backoff_delay, captive_portal_active, net_pc, reconnect_failures,
             ap_restarted>>
schedVars == <<setupVars, running, online, pluginVars, dsVars, last_rotation, ssVars,
               dispVars, obsVars, envVars>>
vars == <<setupVars, now, running, online, pluginVars, dsVars, last_rotation, ssVars,
          dispVars, obsVars, envVars, netVars>>

NoTask == [present |-> FALSE, next_run |-> 0, error_count |-> 0, pc |-> "none", wake |-> 0]
NoLoop == [pc |-> "none", wake |-> 0, idx |-> 0, current_time |-> 0,
           last_pull_times |-> [n \in Plugins |-> 0]]

Range(s) == {s[i] : i \in DOMAIN s}

\* One entry of the log of a render tick: buffer cleared, render(...) of a
\* plugin called (and what came of it), display_engine.update() called.
Cleared == [op |-> "clear", plugin |-> "", result |-> ""]
Rendered(w, r) == [op |-> "render", plugin |-> w, result |-> r]
Presented == [op |-> "present", plugin |-> "", result |-> ""]

\* PluginTask.schedule_next: next_run = time.monotonic() + interval
schedule_next(task, w) == [task EXCEPT !.next_run = now + Interval(w)]

\* Variant: schedulers that do not look at the refresh type.
PullableAny(w) == TRUE

\* 'metadata.refresh_type == "pull"': the test add_plugin and
\* _screen_pull_loop make before anything pulls the plugin
Pullable(w) == RefreshType(w) = "pull"

\* Variant: add_plugin without its schedule_next() call, the pull due at once.
add_plugin_now(w) == [NoTask EXCEPT !.present = TRUE]

\* DisplayScheduler.add_plugin: a PluginTask for the plugin; the pull side of
\* it is scheduled one interval ahead.
add_plugin(w) ==
    IF Pullable(w)
    THEN schedule_next([NoTask EXCEPT !.present = TRUE], w)
    ELSE [NoTask EXCEPT !.present = TRUE]

\* NetworkManager.__init__ with the given retry_delay and
\* captive_portal_enabled of the configuration
NetworkManagerInit(rd, cpe) ==
    /\ retry_delay = rd
    /\ captive_portal_enabled = cpe
    /\ radio = FALSE
    /\ connected = FALSE
    /\ last_connection_attempt = 0
    /\ connection_failures = 0
    /\ consecutive_failures = 0
    /\ backoff_delay = rd
    /\ captive_portal_active = FALSE
    /\ net_pc = "boot"
    /\ reconnect_failures = 0
    /\ ap_restarted = FALSE
    /\ last_attempt = 0

\* --------------------------------------------------------- PluginManager
\* A configuration mapping is a set of <<key, value>> pairs with distinct
\* keys; a value is a scalar or a mapping of sub-keys to scalars.
Scalar(n) == [leaf |-> TRUE, v |-> n, m |-> {}]
Nested(m) == [leaf |-> FALSE, v |-> 0, m |-> m]
NoInstance == [created |-> FALSE, config |-> {}]

SubKeys == {"x", "y"}
AsPairs(f) == {<<k, f[k]>> : k \in DOMAIN f}
SubMaps == {AsPairs(f) : f \in UNION {[S -> 0..MaxVal] : S \in SUBSET SubKeys}}

\* the configurations of the scenario: an optional scalar "enabled" and an
\* optional "opts" that is a scalar or a nested mapping
Configs ==
    {e \cup o :
        e \in {{}} \cup {{<<"enabled", Scalar(n)>>} : n \in 0..MaxVal},
        o \in {{}} \cup {{<<"opts", Scalar(n)>>} : n \in 0..MaxVal}
                   \cup {{<<"opts", Nested(m)>>} : m \in SubMaps}}

ConfigKeys(cfg) == {p[1] : p \in cfg}
Get(cfg, k) == (CHOOSE p \in cfg : p[1] = k)[2]

\* dict.update: every key of u is set to u's value, the other keys of d stay
dict_update(d, u) == {p \in d : p[1] \notin ConfigKeys(u)} \cup u

\* The merge that descends into nested mappings: where both sides hold a
\* mapping under a key, the sub-keys are merged; elsewhere u's value wins.
RecursiveMerge(d, u) ==
    {p \in d : p[1] \notin ConfigKeys(u)}
    \cup {<<q[1], IF q[1] \in ConfigKeys(d) /\ ~Get(d, q[1]).leaf /\ ~q[2].leaf
                  THEN Nested(dict_update(Get(d, q[1]).m, q[2].m))
                  ELSE q[2]>> : q \in u}

\* self.plugins: the names load_plugin registered
Registered == Plugins

\* No create_plugin_instance call is under way or under study.
RegistryIdle ==
    /\ plugin_name = "clock"
    /\ user_config = {}
    /\ default_config = {}
    /\ instance = NoInstance
    /\ registry_pc = "idle"

\* ---------------------------------------------------------- load_screens
\* the names a configuration can mention; "nosuch" is not registered
ConfigNames == <<"clock", "weather", "nosuch">>
\* the keys of config['screens'], in the order of its items()
DeclaredNames == <<"main", "alt", "night", "extra">>
\* the 'plugins' lists a declared screen can have
PluginLists == {<<>>, <<"clock">>, <<"nosuch">>, <<"clock", "weather">>}

\* ScreenLayout(name, ...) with the instances added to it
ScreenLayout(name, plugins) == [name |-> name, plugins |-> plugins]

\* ScreenLayout.is_enabled: "self.enabled and len(self.plugins) > 0";
\* nothing ever clears self.enabled
is_enabled(screen) == Len(screen.plugins) > 0

\* The instances create_plugin_instance returns for a list of names: None
\* for a name that is not registered, and None is not added.
Instantiated(names) == SelectSeq(names, LAMBDA n : n \in Registered)

\* load_screens, lines 51-77: the declared screens that are enabled in the
\* configuration and end up with at least one plugin
DeclaredScreens(cfg) ==
    LET built == [i \in 1..Len(cfg) |->
                    [enabled |-> cfg[i].enabled,
                     layout |-> ScreenLayout(DeclaredNames[i],
                                             Instantiated(cfg[i].plugins))]]
        kept == SelectSeq(built, LAMBDA b : b.enabled /\ is_enabled(b.layout))
    IN  [i \in 1..Len(kept) |-> kept[i].layout]

\* _create_default_screen: the screen 'default' with every plugin of
\* config['plugins'] that is enabled and can be instantiated, appended only
\* "if default_screen.is_enabled()"
create_default_screen(list, pcfg) ==
    LET default_screen ==
            ScreenLayout("default",
                Instantiated(SelectSeq(ConfigNames, LAMBDA n : pcfg[n] = "on")))
    IN  IF is_enabled(default_screen) THEN Append(list, default_screen) ELSE list

\* load_screens: self.screens when it returns
load_screens(cfg, pcfg) ==
    IF cfg = <<>> THEN create_default_screen(<<>>, pcfg)
    ELSE IF DeclaredScreens(cfg) = <<>>
    THEN create_default_screen(<<>>, pcfg)
    ELSE DeclaredScreens(cfg)

\* No load_screens call is under study.
LoadIdle ==
    /\ screens_config = <<>>
    /\ plugins_config = [n \in Range(ConfigNames) |-> "absent"]
    /\ screens = <<>>
    /\ load_pc = "idle"

\* No stop() call was made.
StopIdle ==
    /\ stop_pc = "none"
    /\ stops = 0

\* No fetch_json call was made.
FetchIdle ==
    /\ fetch_pc = "idle"
    /\ fetch_attempt = 0
    /\ fetch_wake = 0
    /\ fetch_log = <<>>
    /\ fetch_result = "pending"
    /\ fetches = 0

\* main() is not under study.
MainIdle ==
    /\ main_pc = "off"
    /\ restart_count = 0
    /\ dashboard = FALSE
    /\ wdt = FALSE
    /\ last_sleep = 0
    /\ failed_runs = 0

\* Pull-type plugins a screen may hold more than once.
InstanceNames == {"weather", "clock"}
Instances == 1..2

\* No screen with two instances is under study.
InstIdle ==
    /\ inst_name = [i \in Instances |-> "weather"]
    /\ inst_enabled = [i \in Instances |-> TRUE]
    /\ inst_errors = [i \in Instances |-> 0]
    /\ inst_pulled = [i \in Instances |-> 0]
    /\ last_pull_times = [n \in InstanceNames |-> 0]
    /\ inst_idx = 0
    /\ inst_time = 0
    /\ inst_wake = 0

ConfigVersions == <<"v1", "v2", "v3", "v4">>

\* No save_config call is under study.
SaveIdle ==
    /\ file_config = "absent"
    /\ file_backup = "absent"
    /\ file_temp = "absent"
    /\ save_pc = "idle"
    /\ saving = "absent"
    /\ save_old = "absent"
    /\ loaded = "pending"
    /\ saves = 0

\* No remove_plugin call by name is under study.
PrefixIdle ==
    /\ task_names = {}
    /\ current_name = <<>>
    /\ cancelled_names = {}

Bitmaps == 1..2

\* DisplayEngine.__init__ before _init_buffers
EngineNew ==
    /\ engine_pc = "new"
    /\ front_buffer = 0
    /\ back_buffer = 0
    /\ current_buffer = 0
    /\ tile_bitmap = 0
    /\ bitmaps = [b \in Bitmaps |-> {}]
    /\ updates = 0

TailIdle == PrefixIdle /\ EngineNew

LateIdle == MainIdle /\ InstIdle /\ SaveIdle /\ TailIdle

ScenarioIdle == LoadIdle /\ StopIdle /\ FetchIdle /\ LateIdle

\* The plugins, the scheduler and the display after construction.
SchedulerInit ==
    /\ now = BootTime
    /\ running = FALSE
    /\ enabled = [w \in Plugins |->
                    IF sched = "display" THEN w \in Range(DashboardPlugins) ELSE TRUE]
    /\ config_enabled = enabled
    /\ error_count = [w \in Plugins |-> 0]
    /\ data = [w \in Plugins |-> {}]
    /\ last_update = [w \in Plugins |-> 0]
    /\ active_plugins = [w \in Plugins |->
                    IF sched = "display" /\ w \in Range(DashboardPlugins)
                    THEN add_plugin(w) ELSE NoTask]
    /\ current_plugin = "none"
    /\ last_rotation = 0
    /\ current_screen_index = 0
    /\ mark_index = 0
    /\ since_mark = 0
    /\ pull_loop = [s \in Range(Screens) |-> NoLoop]
    /\ gathering = [s \in Range(Screens) |-> FALSE]
    /\ gathers = 0
    /\ display_pc = "none"
    /\ render_idx = 0
    /\ frame_seen = FALSE
    /\ frame = <<>>
    /\ pull_calls = [w \in Plugins |-> 0]
    /\ ticks = [w \in Plugins |-> 0]
    /\ only_raised = [w \in Plugins |-> TRUE]
    /\ reconfigs = 0
    /\ render_faults = 0

\* The scheduling scenarios: connectivity is what is_connected() reports.
Init ==
    /\ sched \in {"display", "screen"}
    /\ faulty \in {w \in Plugins : RefreshType(w) = "pull"}
    /\ online \in BOOLEAN
    /\ screen_count = Len(Screens)
    /\ RegistryIdle
    /\ ScenarioIdle
    /\ SchedulerInit
    /\ NetworkManagerInit(DefaultRetryDelay, TRUE)

\* Variant: a render cycle that yields to the event loop between its steps.
SuspendedAnywhere == TRUE

\* The event loop is cooperative: a task runs from one await to the next.
\* The display task is suspended exactly when it sits in its asyncio.sleep
\* (screen_scheduler.py line 106, scheduler.py line 157); between the top of
\* its loop and that sleep it has no await.
Suspended == display_pc \in {"none", "sleep"}

\* The other tasks take their steps of a second after its frame.
MayRun == Suspended /\ frame_seen

\* ------------------------------------------------------------ environment
PullLoopReady ==
    \/ \E w \in Plugins : active_plugins[w].pc = "sleep" /\ now >= active_plugins[w].wake
    \/ \E s \in Range(Screens) : pull_loop[s].pc = "sleep" /\ now >= pull_loop[s].wake

PullInFlight ==
    \/ \E w \in Plugins : active_plugins[w].pc = "pulling"
    \/ \E s \in Range(Screens) : pull_loop[s].pc = "pulling"
    \/ \E s \in Range(Screens) : gathering[s]

\* One second passes, once every task whose sleep has expired has run.
Tick ==
    /\ running
    /\ MayRun
    /\ ~PullLoopReady /\ ~PullInFlight
    /\ now < MaxTime
    /\ now' = now + 1
    /\ frame_seen' = FALSE
    /\ UNCHANGED <<netVars, setupVars, running, online, pluginVars, dsVars, last_rotation, ssVars,
                   display_pc, render_idx, frame, obsVars, envVars>>

\* The link goes down or comes back (what is_connected() reports changes).
LinkChange ==
    /\ MayRun
    /\ online' = ~online
    /\ UNCHANGED <<netVars, setupVars, now, running, pluginVars, dsVars, last_rotation, ssVars,
                   dispVars, obsVars, envVars>>

\* ------------------------------------------------------------------ start
\* DisplayScheduler.start / ScreenScheduler.start
Start ==
    /\ ~running
    /\ stop_pc = "none"
    /\ running' = TRUE
    /\ display_pc' = "sleep"
    /\ IF sched = "display"
       THEN /\ active_plugins' = [w \in Plugins |->
                    IF active_plugins[w].present /\ Pullable(w)
                    THEN [active_plugins[w] EXCEPT !.pc = "sleep", !.wake = now]
                    ELSE active_plugins[w]]
            /\ UNCHANGED pull_loop
       ELSE /\ pull_loop' = [s \in Range(Screens) |->
                    [NoLoop EXCEPT !.pc = "sleep", !.wake = now]]
            /\ UNCHANGED active_plugins
    /\ UNCHANGED <<netVars, setupVars, now, online, pluginVars, current_plugin, last_rotation,
                   current_screen_index, render_idx, frame, frame_seen, obsVars, envVars>>

\* --------------------------------------------------------- pull outcomes
\* What "await plugin.pull()" can come back with: a mapping (its keys; the
\* empty mapping is falsy), None, or an exception. A network widget without
\* a network manager or without a link returns None. Dashboard._init_plugins
\* never calls set_network; ScreenManager.load_screens does.
HasNetwork(w) == sched = "screen"
PullOutcomes(w) ==
    IF NetGated(w) /\ ~(HasNetwork(w) /\ online)
    THEN {[kind |-> "none", keys |-> {}]}
    ELSE IF w = faulty
    THEN {[kind |-> "ok", keys |-> k] : k \in PullKeys(w)}
         \cup {[kind |-> "none", keys |-> {}], [kind |-> "raise", keys |-> {}]}
    ELSE {[kind |-> "ok", keys |-> k] : k \in PullKeys(w) \ {{}}}

AllOutcomes ==
    {[kind |-> k, keys |-> ks] : k \in {"ok", "none", "raise"}, ks \in SUBSET Keys}

\* ------------------------------------------------------ DisplayScheduler
\* PluginTask.should_run
should_run(task) == now >= task.next_run

\* _pull_task_loop, from the top of the loop to "await plugin.pull()" or to
\* "await asyncio.sleep(1)".
PullTaskWake(w) ==
    /\ sched = "display" /\ running /\ MayRun
    /\ active_plugins[w].pc = "sleep"
    /\ now >= active_plugins[w].wake
    /\ IF should_run(active_plugins[w]) /\ enabled[w]
       THEN /\ active_plugins' = [active_plugins EXCEPT ![w].pc = "pulling"]
            /\ pull_calls' = [pull_calls EXCEPT ![w] = @ + 1]
       ELSE /\ active_plugins' = [active_plugins EXCEPT
                                    ![w].wake = now + PullCheckPeriod]
            /\ UNCHANGED pull_calls
    /\ ticks' = [ticks EXCEPT ![w] = IF enabled[w] THEN @ + 1 ELSE @]
    /\ UNCHANGED <<netVars, setupVars, now, running, online, pluginVars, current_plugin,
                   last_rotation, ssVars, dispVars, only_raised, envVars>>

\* Variant: a failure budget that takes the whole screen of the plugin down.
DisableScreen(en, w) ==
    [v \in Plugins |->
        IF \E s \in Range(Screens) : {v, w} \subseteq Range(ScreenPlugins[s])
        THEN FALSE ELSE en[v]]

\* "plugin.enabled = False" (both pull loops)
Disable(en, w) == [en EXCEPT ![w] = FALSE]

\* Variant: the budget check one failure late.
OverBudgetLate(count) == count > ErrorBudget + 1

\* "if error_count > 5: plugin.enabled = False" (both pull loops)
OverBudget(count) == count > ErrorBudget

\* The bookkeeping of _pull_task_loop after the pull came back: the try body
\* on a mapping, the except branch on an exception. data.update(None) raises
\* TypeError, so a pull that returns None takes the except branch too.
DisplayPullSucceeded(out) == out.kind = "ok"

\* _pull_task_loop, from the return of pull() to "await asyncio.sleep(1)".
PullTaskDone(w, out) ==
    /\ sched = "display" /\ MayRun
    /\ active_plugins[w].pc = "pulling"
    /\ out \in PullOutcomes(w)
    /\ LET count == IF DisplayPullSucceeded(out) THEN 0
                    ELSE active_plugins[w].error_count + 1
           task == [active_plugins[w] EXCEPT !.error_count = count,
                                             !.pc = "sleep",
                                             !.wake = now + PullCheckPeriod]
       IN /\ active_plugins' = [active_plugins EXCEPT ![w] = schedule_next(task, w)]
          /\ IF DisplayPullSucceeded(out)
             THEN /\ data' = [data EXCEPT ![w] = @ \cup out.keys]
                  /\ last_update' = [last_update EXCEPT ![w] = now]
                  /\ UNCHANGED enabled
             ELSE /\ enabled' = IF OverBudget(count) THEN Disable(enabled, w)
                                 ELSE enabled
                  /\ UNCHANGED <<data, last_update>>
    /\ only_raised' = [only_raised EXCEPT ![w] = @ /\ out.kind = "raise"]
    /\ UNCHANGED <<netVars, setupVars, now, running, online, error_count, config_enabled,
                   current_plugin, last_rotation, ssVars, dispVars, pull_calls, ticks,
                   envVars>>

\* What plugin.render(buffer, width, height) returns when it does not raise:
\* True once it has data to draw, False before.
RenderResult(w) == IF data[w] = {} THEN "nothing" ELSE "drew"

\* _rotate_display: the enabled display plugins, in registration order.
RECURSIVE display_plugins(_)
display_plugins(order) ==
    IF order = <<>> THEN <<>>
    ELSE LET w == Head(order)
             rest == display_plugins(Tail(order))
         IN IF active_plugins[w].present /\ enabled[w] THEN <<w>> \o rest ELSE rest

IndexOf(seq, x) == CHOOSE i \in DOMAIN seq : seq[i] = x

\* _rotate_display: the plugin to switch to
NextPlugin(dp) ==
    IF current_plugin # "none" /\ current_plugin \in Range(dp)
    THEN dp[(IndexOf(dp, current_plugin) % Len(dp)) + 1]
    ELSE dp[1]

\* _should_rotate_display
should_rotate_display ==
    \/ current_plugin = "none"
    \/ (now - last_rotation) >= display_rotation_time

\* _main_loop, from the top of the loop to the render call: the rotation.
MainBegin ==
    /\ sched = "display" /\ running
    /\ display_pc = "sleep" /\ ~frame_seen
    /\ frame_seen' = TRUE
    /\ LET dp == display_plugins(DashboardPlugins)
           rotates == should_rotate_display /\ dp # <<>>
           cur == IF ~should_rotate_display THEN current_plugin
                  ELSE IF dp = <<>> THEN "none" ELSE NextPlugin(dp)
       IN /\ current_plugin' = cur
          /\ last_rotation' = IF rotates THEN now ELSE last_rotation
          /\ frame' = IF rotates THEN <<Cleared>> ELSE <<>>
          /\ display_pc' = IF cur # "none" THEN "render" ELSE "done"
    /\ UNCHANGED <<netVars, setupVars, now, running, online, pluginVars, active_plugins, ssVars,
                   render_idx, obsVars, envVars>>

\* _render_current_plugin: render, and update() when it returned True
MainRender(r) ==
    /\ sched = "display"
    /\ display_pc = "render"
    /\ r \in {RenderResult(current_plugin), "raise"}
    /\ r = "raise" => render_faults < MaxRenderFaults
    /\ render_faults' = IF r = "raise" THEN render_faults + 1 ELSE render_faults
    /\ frame' = frame \o (IF r = "drew" THEN <<Rendered(current_plugin, r), Presented>>
                          ELSE <<Rendered(current_plugin, r)>>)
    /\ display_pc' = "done"
    /\ UNCHANGED <<netVars, setupVars, now, running, online, pluginVars, dsVars, last_rotation,
                   ssVars, render_idx, frame_seen, obsVars, reconfigs>>

\* PluginInterface.update_config: the "enabled" key of the merged config
merged_enabled(w, cfg) == IF cfg = "unset" THEN config_enabled[w] ELSE cfg = "on"

NewConfigs == {"unset", "on", "off"}

\* DisplayScheduler.update_plugin_config, with remove_plugin when the plugin
\* ends up disabled and schedule_next when it does not.
UpdatePluginConfig(w, cfg) ==
    /\ sched = "display" /\ MayRun
    /\ active_plugins[w].present
    /\ reconfigs < MaxReconfig
    /\ reconfigs' = reconfigs + 1
    /\ config_enabled' = [config_enabled EXCEPT ![w] = merged_enabled(w, cfg)]
    /\ enabled' = [enabled EXCEPT ![w] = merged_enabled(w, cfg)]
    /\ IF merged_enabled(w, cfg)
       THEN /\ active_plugins' = [active_plugins EXCEPT
                                    ![w] = schedule_next(active_plugins[w], w)]
            /\ UNCHANGED current_plugin
       ELSE /\ active_plugins' = [active_plugins EXCEPT ![w] = NoTask]
            /\ current_plugin' = IF current_plugin = w THEN "none" ELSE current_plugin
    /\ UNCHANGED <<netVars, setupVars, now, running, online, error_count, data, last_update,
                   last_rotation, ssVars, dispVars, obsVars, render_faults>>

\* --------------------------------------------------------- ScreenScheduler
\* _screen_pull_loop: "if (current_time - last_pull) >= interval" for an
\* enabled pull-type plugin. Scanning from position j, the next plugin of
\* the screen whose pull is awaited (0: none, the loop goes to sleep).
RECURSIVE NextDue(_, _, _, _, _)
NextDue(s, j, en, lpt, ct) ==
    IF j > Len(ScreenPlugins[s]) THEN 0
    ELSE LET w == ScreenPlugins[s][j]
         IN IF /\ en[w]
               /\ (ct - lpt[PluginName(w)]) >= Interval(w)
               /\ Pullable(w)
            THEN j
            ELSE NextDue(s, j + 1, en, lpt, ct)

\* The enabled plugins the scan looked at, from position j up to position k
\* (k = 0: up to the end of the list).
Examined(s, j, k, en) ==
    {ScreenPlugins[s][i] : i \in {i \in DOMAIN ScreenPlugins[s] :
        i >= j /\ (k = 0 \/ i <= k) /\ en[ScreenPlugins[s][i]]}}

\* The rest of one loop iteration from position j: up to the next awaited
\* pull, or to "await asyncio.sleep(self.pull_interval)".
ScanFrom(s, j, en, lpt, ct) ==
    LET k == NextDue(s, j, en, lpt, ct)
        seen == Examined(s, j, k, en)
    IN /\ pull_loop' = [pull_loop EXCEPT ![s] =
              [pc |-> IF k = 0 THEN "sleep" ELSE "pulling",
               wake |-> IF k = 0 THEN now + PullCheckPeriod ELSE pull_loop[s].wake,
               idx |-> k, current_time |-> ct, last_pull_times |-> lpt]]
       /\ ticks' = [w \in Plugins |-> IF w \in seen THEN ticks[w] + 1 ELSE ticks[w]]
       /\ pull_calls' = [w \in Plugins |->
              IF k # 0 /\ w = ScreenPlugins[s][k] THEN pull_calls[w] + 1 ELSE pull_calls[w]]

\* _screen_pull_loop, from the top of the loop ("current_time = time.monotonic()")
ScreenPullWake(s) ==
    /\ sched = "screen" /\ running /\ MayRun
    /\ pull_loop[s].pc = "sleep"
    /\ now >= pull_loop[s].wake
    /\ ScanFrom(s, 1, enabled, pull_loop[s].last_pull_times, now)
    /\ UNCHANGED <<netVars, setupVars, now, running, online, pluginVars, dsVars, last_rotation,
                   current_screen_index, dispVars, only_raised, envVars>>

\* "if data:" a non-empty mapping
Truthy(out) == out.kind = "ok" /\ out.keys # {}

\* _screen_pull_loop: last_pull_times after the pull of plugin w came back.
\* The assignment is the last statement of the try body.
LastPullTimes(lpt, w, out, ct) ==
    IF out.kind = "raise" THEN lpt ELSE [lpt EXCEPT ![PluginName(w)] = ct]

\* _screen_pull_loop, from the return of pull() through the bookkeeping and
\* on with the remaining plugins of the screen.
ScreenPullDone(s, out) ==
    /\ sched = "screen" /\ MayRun
    /\ pull_loop[s].pc = "pulling"
    /\ LET w == ScreenPlugins[s][pull_loop[s].idx]
           ct == pull_loop[s].current_time
           raised == out.kind = "raise"
           count == IF raised THEN error_count[w] + 1
                    ELSE IF Truthy(out) THEN 0 ELSE error_count[w]
           en == IF raised /\ OverBudget(count) THEN Disable(enabled, w) ELSE enabled
           lpt == LastPullTimes(pull_loop[s].last_pull_times, w, out, ct)
       IN /\ out \in PullOutcomes(w)
          /\ error_count' = [error_count EXCEPT ![w] = count]
          /\ enabled' = en
          /\ data' = [data EXCEPT ![w] = IF Truthy(out) THEN @ \cup out.keys ELSE @]
          /\ last_update' = [last_update EXCEPT ![w] = IF Truthy(out) THEN ct ELSE @]
          /\ only_raised' = [only_raised EXCEPT ![w] = @ /\ raised]
          /\ ScanFrom(s, pull_loop[s].idx + 1, en, lpt, ct)
    /\ UNCHANGED <<netVars, setupVars, now, running, online, config_enabled, dsVars, last_rotation,
                   current_screen_index, dispVars, envVars>>

\* ScreenManager.should_rotate_screen
should_rotate_screen ==
    /\ ~(screen_count <= 1)
    /\ (now - last_rotation) >= rotation_interval

\* Variant: a rotation that stops at the last screen instead of wrapping.
rotate_screen_saturating(i, t) ==
    IF screen_count <= 1 THEN [index |-> i, last_rotation |-> t]
    ELSE [index |-> IF i + 1 >= screen_count THEN i ELSE i + 1, last_rotation |-> now]

\* Variant: a rotation that skips a screen.
rotate_screen_skipping(i, t) ==
    IF screen_count <= 1 THEN [index |-> i, last_rotation |-> t]
    ELSE [index |-> (i + 2) % screen_count, last_rotation |-> now]

\* ScreenManager.rotate_screen: current_screen_index and last_rotation
\* after the call, from their values i and t before it
rotate_screen(i, t) ==
    IF screen_count <= 1 THEN [index |-> i, last_rotation |-> t]
    ELSE [index |-> (i + 1) % screen_count, last_rotation |-> now]

\* ScreenManager.get_current_screen (the index counts from 0)
CurrentScreen == Screens[current_screen_index + 1]

\* _display_loop, from the top of the loop through the rotation check,
\* buffer.fill(0) and the clearing loop of render_screen.
DisplayBegin ==
    /\ sched = "screen" /\ running
    /\ display_pc = "sleep" /\ ~frame_seen
    /\ frame_seen' = TRUE
    /\ IF should_rotate_screen
       THEN /\ current_screen_index' =
                    rotate_screen(current_screen_index, last_rotation).index
            /\ last_rotation' =
                    rotate_screen(current_screen_index, last_rotation).last_rotation
       ELSE UNCHANGED <<current_screen_index, last_rotation>>
    /\ frame' = <<Cleared, Cleared>>
    /\ display_pc' = "render"
    /\ render_idx' = 1
    /\ UNCHANGED <<netVars, setupVars, now, running, online, pluginVars, dsVars, pull_loop,
                   obsVars, envVars>>

\* Variant: render_screen without the per-plugin try/except, a raising
\* render ending the loop over the plugins.
AfterRenderAbort(i, r) ==
    IF r = "raise" THEN Len(ScreenPlugins[CurrentScreen]) + 1 ELSE i + 1

\* render_screen: where the loop over the plugins stands after the render
\* of the plugin at position i came back with r. The per-plugin
\* try/except keeps the loop going when the render raised.
AfterRender(i, r) == i + 1

\* render_screen: one turn of "for plugin in screen.get_plugins()"
DisplayRender(r) ==
    /\ sched = "screen"
    /\ display_pc = "render"
    /\ render_idx <= Len(ScreenPlugins[CurrentScreen])
    /\ LET w == ScreenPlugins[CurrentScreen][render_idx]
       IN IF enabled[w]
          THEN /\ r \in {RenderResult(w), "raise"}
               /\ r = "raise" => render_faults < MaxRenderFaults
               /\ frame' = Append(frame, Rendered(w, r))
               /\ IF r = "raise"
                  THEN /\ error_count' = [error_count EXCEPT ![w] = @ + 1]
                       /\ render_faults' = render_faults + 1
                  ELSE UNCHANGED <<error_count, render_faults>>
          ELSE /\ r = "nothing"
               /\ UNCHANGED <<frame, error_count, render_faults>>
    /\ render_idx' = AfterRender(render_idx, r)
    /\ UNCHANGED <<netVars, setupVars, now, running, online, enabled, data, last_update,
                   config_enabled, dsVars, last_rotation, ssVars, display_pc,
                   frame_seen, obsVars, reconfigs>>

\* Variant: update() called inside the loop over the plugins.
PresentEarly(i, n) == i >= 2

\* _display_loop: where update() is called. It follows the return of
\* render_screen, that is the end of the loop over the n plugins.
PresentAt(i, n) == i = n + 1

\* _display_loop: "self.display_engine.update()" after render_screen returned
DisplayPresent ==
    /\ sched = "screen"
    /\ display_pc = "render"
    /\ PresentAt(render_idx, Len(ScreenPlugins[CurrentScreen]))
    /\ frame' = Append(frame, Presented)
    /\ display_pc' = "done"
    /\ UNCHANGED <<netVars, setupVars, now, running, online, pluginVars, dsVars, last_rotation,
                   ssVars, render_idx, frame_seen, obsVars, envVars>>

\* either display loop: the "await asyncio.sleep(...)" that ends the tick
DisplaySleep ==
    /\ display_pc = "done"
    /\ display_pc' = "sleep"
    /\ frame' = <<>>
    /\ UNCHANGED <<netVars, setupVars, now, running, online, pluginVars, dsVars, last_rotation,
                   ssVars, render_idx, frame_seen, obsVars, envVars>>

\* PluginInterface.update_config on a plugin of a screen
UpdateConfig(w, cfg) ==
    /\ sched = "screen" /\ MayRun
    /\ reconfigs < MaxReconfig
    /\ reconfigs' = reconfigs + 1
    /\ config_enabled' = [config_enabled EXCEPT ![w] = merged_enabled(w, cfg)]
    /\ enabled' = [enabled EXCEPT ![w] = merged_enabled(w, cfg)]
    /\ UNCHANGED <<netVars, setupVars, now, running, online, error_count, data, last_update,
                   dsVars, last_rotation, ssVars, dispVars, obsVars, render_faults>>

\* ---------------------------------------------------------- specification
\* The dashboard with healthy rendering and a fixed configuration.
Next ==
    \/ Tick
    \/ LinkChange
    \/ Start
    \/ \E w \in Plugins : PullTaskWake(w)
    \/ \E w \in Plugins : \E out \in AllOutcomes : PullTaskDone(w, out)
    \/ MainBegin
    \/ \E r \in {"drew", "nothing"} : MainRender(r)
    \/ \E s \in Range(Screens) : ScreenPullWake(s)
    \/ \E s \in Range(Screens) : \E out \in AllOutcomes : ScreenPullDone(s, out)
    \/ DisplayBegin
    \/ \E r \in {"drew", "nothing"} : DisplayRender(r)
    \/ DisplayPresent
    \/ DisplaySleep

Spec == Init /\ [][Next]_vars

\* The same with an operator who reconfigures the plugin under observation.
NextConfig ==
    \/ Next
    \/ \E cfg \in NewConfigs : UpdatePluginConfig(faulty, cfg)
    \/ \E cfg \in NewConfigs : UpdateConfig(faulty, cfg)

SpecConfig == Init /\ [][NextConfig]_vars

\* The same with render methods that may raise.
NextRender ==
    \/ Next
    \/ MainRender("raise")
    \/ DisplayRender("raise")

SpecRender == Init /\ [][NextRender]_vars


\* ---------------------------------------------- ScreenManager rotation
\* what the rotation scenario leaves alone
rotRest == <<sched, faulty, screen_count, gatherVars, last_attempt, registryVars, scenarioVars, running, online, pluginVars, dsVars,
             pull_loop, dispVars, obsVars, envVars, netVars>>

\* ------------------------------------------------------------------ stop
\* DisplayScheduler.stop / ScreenScheduler.stop. Both set running = False,
\* cancel the display task and await it, then cancel every task of
\* self.tasks and await them in asyncio.gather. CancelledError is no
\* Exception: the "except Exception" clauses of the loops let it through.
setupRest == <<sched, faulty, screen_count, mark_index, since_mark, gatherVars,
               last_attempt, registryVars, loadVars, fetchVars, lateVars>>

\* stop(), from its start to "await self.display_task": the display task,
\* suspended in its sleep, takes the cancellation and ends.
StopBegin ==
    /\ running /\ MayRun
    /\ stop_pc = "none"
    /\ stops < MaxStops
    /\ running' = FALSE
    /\ display_pc' = "none"
    /\ stop_pc' = "display"
    /\ UNCHANGED <<netVars, setupRest, stops, now, online, pluginVars, dsVars,
                   last_rotation, ssVars, render_idx, frame, frame_seen, obsVars, envVars>>

\* Variant: a stop() that cancels only the tasks that sit in a sleep.
CancelledSleeping(pc) == IF pc = "sleep" THEN "none" ELSE pc

\* "if not task.done(): task.cancel()" and the gather: where a task of
\* self.tasks stands once stop() has awaited it
Cancelled(pc) == "none"

\* Variant: pull loops whose handlers catch everything, as a bare
\* "except:" would.
CaughtByBareExcept(exc) == TRUE

\* "except Exception as e:" around "await plugin.pull()": the handler runs
\* for an Exception; asyncio.CancelledError derives from BaseException.
CaughtByLoop(exc) == exc = "Exception"

\* The failure counter of a plugin whose pull was cancelled in flight: the
\* except branch counts a failure only if it catches the cancellation.
AfterCancel(count) == IF CaughtByLoop("CancelledError") THEN count + 1 ELSE count

\* stop(), from the return of "await self.display_task" to its end: every
\* pull task is cancelled at the await it is suspended in (its sleep or
\* its plugin.pull()), awaited, and forgotten.
StopCancel ==
    /\ stop_pc = "display"
    /\ stop_pc' = "none"
    /\ stops' = stops + 1
    /\ active_plugins' = [w \in Plugins |->
            [active_plugins[w] EXCEPT
                !.pc = Cancelled(active_plugins[w].pc),
                !.error_count = IF active_plugins[w].pc = "pulling"
                                THEN AfterCancel(@) ELSE @]]
    /\ pull_loop' = [s \in Range(Screens) |->
            [pull_loop[s] EXCEPT !.pc = Cancelled(pull_loop[s].pc)]]
    /\ error_count' = [w \in Plugins |->
            IF \E s \in Range(Screens) :
                  pull_loop[s].pc = "pulling" /\ ScreenPlugins[s][pull_loop[s].idx] = w
            THEN AfterCancel(error_count[w]) ELSE error_count[w]]
    /\ UNCHANGED <<netVars, setupRest, now, running, online, enabled, data, last_update,
                   config_enabled, current_plugin, last_rotation, current_screen_index,
                   dispVars, obsVars, envVars>>

\* DisplayScheduler.remove_plugin: the tasks of the plugin are cancelled
\* and dropped from active_plugins; a pull in flight is abandoned. One
\* plugin is removed in a run.
RemovePlugin(w) ==
    /\ sched = "display" /\ running /\ MayRun
    /\ \A v \in Range(DashboardPlugins) : active_plugins[v].present
    /\ active_plugins' = [active_plugins EXCEPT ![w] = NoTask]
    /\ current_plugin' = IF current_plugin = w THEN "none" ELSE current_plugin
    /\ UNCHANGED <<netVars, setupVars, now, running, online, pluginVars, last_rotation,
                   ssVars, dispVars, obsVars, envVars>>

\* _pull_task_loop: "while self.running" fails after the sleep.
PullTaskExit(w) ==
    /\ sched = "display" /\ ~running
    /\ active_plugins[w].pc = "sleep"
    /\ now >= active_plugins[w].wake
    /\ active_plugins' = [active_plugins EXCEPT ![w].pc = "none"]
    /\ UNCHANGED <<netVars, setupVars, now, running, online, pluginVars, current_plugin,
                   last_rotation, ssVars, dispVars, obsVars, envVars>>

\* _screen_pull_loop: "while self.running" fails after the sleep.
ScreenPullExit(s) ==
    /\ sched = "screen" /\ ~running
    /\ pull_loop[s].pc = "sleep"
    /\ now >= pull_loop[s].wake
    /\ pull_loop' = [pull_loop EXCEPT ![s].pc = "none"]
    /\ UNCHANGED <<netVars, setupVars, now, running, online, pluginVars, dsVars,
                   last_rotation, current_screen_index, dispVars, obsVars, envVars>>

\* One second passes while the scheduler is stopped.
IdleTick ==
    /\ ~running
    /\ stop_pc = "none" /\ stops > 0
    /\ now < MaxTime
    /\ now' = now + 1
    /\ frame_seen' = FALSE
    /\ UNCHANGED <<netVars, setupVars, running, online, pluginVars, dsVars, last_rotation,
                   ssVars, display_pc, render_idx, frame, obsVars, envVars>>

\* The stop scenario: the link stays up and no data source misbehaves. The
\* calls of start() and stop() come one after the other, each awaited
\* before the next is made.
StopInit ==
    /\ sched \in {"display", "screen"}
    /\ faulty = "none"
    /\ online = TRUE
    /\ screen_count = Len(Screens)
    /\ RegistryIdle
    /\ ScenarioIdle
    /\ SchedulerInit
    /\ NetworkManagerInit(DefaultRetryDelay, TRUE)

NextStop ==
    \/ Tick
    \/ Start
    \/ \E w \in Plugins : PullTaskWake(w)
    \/ \E w \in Plugins : \E out \in AllOutcomes : PullTaskDone(w, out)
    \/ MainBegin
    \/ \E r \in {"drew", "nothing"} : MainRender(r)
    \/ \E s \in Range(Screens) : ScreenPullWake(s)
    \/ \E s \in Range(Screens) : \E out \in AllOutcomes : ScreenPullDone(s, out)
    \/ DisplayBegin
    \/ \E r \in {"drew", "nothing"} : DisplayRender(r)
    \/ DisplayPresent
    \/ DisplaySleep
    \/ StopBegin
    \/ StopCancel
    \/ \E w \in Plugins : RemovePlugin(w)
    \/ \E w \in Plugins : PullTaskExit(w)
    \/ \E s \in Range(Screens) : ScreenPullExit(s)
    \/ IdleTick

SpecStop == StopInit /\ [][NextStop]_vars

\* -------------------------------------------------- pull_screen_data
\* The plugins whose pull() a pull_screen_data(screen) call gathers:
\* 'hasattr(plugin, "pull") and plugin.metadata.refresh_type == "pull"'
Gathered(s) == {w \in Range(ScreenPlugins[s]) : RefreshType(w) = "pull"}

\* ScreenManager.pull_screen_data(screen), up to its 'await asyncio.gather':
\* every gathered pull() is invoked and the caller is suspended on them.
PullScreenData(s) ==
    /\ sched = "screen"
    /\ MayRun
    /\ ~gathering[s]
    /\ gathers < MaxGathers
    /\ Gathered(s) # {}
    /\ gathering' = [gathering EXCEPT ![s] = TRUE]
    /\ gathers' = gathers + 1
    /\ pull_calls' = [w \in Plugins |->
                        IF w \in Gathered(s) THEN pull_calls[w] + 1 ELSE pull_calls[w]]
    /\ UNCHANGED <<netVars, sched, faulty, screen_count, mark_index, since_mark,
                   last_attempt, registryVars, scenarioVars, now, running, online, pluginVars, dsVars, last_rotation, ssVars, dispVars,
                   ticks, only_raised, envVars>>

\* The gather returns: the results are logged and dropped, no plugin field
\* is written.
PullScreenDataDone(s) ==
    /\ MayRun
    /\ gathering[s]
    /\ gathering' = [gathering EXCEPT ![s] = FALSE]
    /\ UNCHANGED <<netVars, sched, faulty, screen_count, mark_index, since_mark, gathers,
                   last_attempt, registryVars, scenarioVars, now, running, online, pluginVars, dsVars, last_rotation, ssVars,
                   dispVars, obsVars, envVars>>

NextGather ==
    \/ Next
    \/ \E s \in Range(Screens) : PullScreenData(s)
    \/ \E s \in Range(Screens) : PullScreenDataDone(s)

SpecGather == Init /\ [][NextGather]_vars

\* The rotation scenario: a screen manager that loaded any number of screens.
RotInit ==
    /\ sched = "screen"
    /\ faulty = "clock"
    /\ online = FALSE
    /\ screen_count \in 0..MaxScreens
    /\ RegistryIdle
    /\ ScenarioIdle
    /\ SchedulerInit
    /\ NetworkManagerInit(DefaultRetryDelay, TRUE)

\* Time passes.
RotAdvance ==
    /\ now < MaxTime
    /\ now' = now + 1
    /\ UNCHANGED <<rotRest, current_screen_index, last_rotation, mark_index, since_mark>>

\* _display_loop: "if should_rotate_screen(): rotate_screen()"
CheckRotation ==
    /\ should_rotate_screen
    /\ since_mark < MaxCalls
    /\ current_screen_index' = rotate_screen(current_screen_index, last_rotation).index
    /\ last_rotation' = rotate_screen(current_screen_index, last_rotation).last_rotation
    /\ since_mark' = since_mark + 1
    /\ UNCHANGED <<rotRest, now, mark_index>>

\* ScreenScheduler.force_screen_rotation: rotate_screen() whatever the timer says
ForceScreenRotation ==
    /\ since_mark < MaxCalls
    /\ current_screen_index' = rotate_screen(current_screen_index, last_rotation).index
    /\ last_rotation' = rotate_screen(current_screen_index, last_rotation).last_rotation
    /\ since_mark' = since_mark + 1
    /\ UNCHANGED <<rotRest, now, mark_index>>

\* A new run of rotate_screen calls begins at the present index.
MarkIndex ==
    /\ since_mark > 0
    /\ mark_index' = current_screen_index
    /\ since_mark' = 0
    /\ UNCHANGED <<rotRest, now, current_screen_index, last_rotation>>

NextRot ==
    \/ RotAdvance
    \/ CheckRotation
    \/ ForceScreenRotation
    \/ MarkIndex

SpecRot == RotInit /\ [][NextRot]_vars

\* ------------------------------------------- create_plugin_instance
\* The registry scenario: one create_plugin_instance(plugin_name, config)
\* call, for any name and any pair of default and user configuration.
MergeInit ==
    /\ sched = "display"
    /\ faulty = "clock"
    /\ online = FALSE
    /\ screen_count = Len(Screens)
    /\ plugin_name \in Registered \cup {"nosuch"}
    /\ user_config \in Configs
    /\ default_config \in Configs
    /\ instance = NoInstance
    /\ registry_pc = "idle"
    /\ ScenarioIdle
    /\ SchedulerInit
    /\ NetworkManagerInit(DefaultRetryDelay, TRUE)

\* PluginManager.create_plugin_instance
CreatePluginInstance ==
    /\ registry_pc = "idle"
    /\ instance' = IF plugin_name \notin Registered THEN NoInstance
                   ELSE [created |-> TRUE,
                         config |-> dict_update(default_config, user_config)]
    /\ registry_pc' = "returned"
    /\ UNCHANGED <<netVars, sched, faulty, screen_count, mark_index, since_mark,
                   gatherVars, last_attempt, plugin_name, user_config, default_config,
                   scenarioVars,
                   now, running, online, pluginVars, dsVars, last_rotation, ssVars,
                   dispVars, obsVars, envVars>>

NextMerge == CreatePluginInstance

SpecMerge == MergeInit /\ [][NextMerge]_vars

\* ------------------------------------------------- load_screens scenario
\* One load_screens call on a fresh ScreenManager, under any configuration.
LoadInit ==
    /\ sched = "screen"
    /\ faulty = "clock"
    /\ online = FALSE
    /\ screen_count = Len(Screens)
    /\ screens_config \in UNION {[1..n -> [enabled : BOOLEAN, plugins : PluginLists]] :
                                  n \in 0..MaxDeclared}
    /\ plugins_config \in [Range(ConfigNames) -> {"absent", "on", "off"}]
    /\ screens = <<>>
    /\ load_pc = "idle"
    /\ StopIdle
    /\ FetchIdle
    /\ LateIdle
    /\ RegistryIdle
    /\ SchedulerInit
    /\ NetworkManagerInit(DefaultRetryDelay, TRUE)

\* ScreenManager.load_screens
LoadScreens ==
    /\ load_pc = "idle"
    /\ screens' = load_screens(screens_config, plugins_config)
    /\ load_pc' = "loaded"
    /\ UNCHANGED <<netVars, sched, faulty, screen_count, mark_index, since_mark,
                   gatherVars, last_attempt, registryVars, screens_config, plugins_config,
                   stopVars, fetchVars, lateVars, now, running, online, pluginVars, dsVars, last_rotation, ssVars,
                   dispVars, obsVars, envVars>>

NextLoad == LoadScreens

SpecLoad == LoadInit /\ [][NextLoad]_vars

\* -------------------------------------------------------- NetworkManager
\* is_connected(): what it returns; it also stores the answer in self.connected
\* when the answer is False.
is_connected == radio /\ connected

\* ------------------------------------------------------------- fetch_json
\* What one requests.get(url, timeout) comes to: status 200 with a body
\* that parses, status 200 with a body response.json() rejects, another
\* status, OSError with errno 119 (EINPROGRESS), another OSError, any
\* other exception.
Responses == {"200", "badjson", "404", "einprogress", "oserror", "error"}

\* Variant: a retry on every OSError.
TransientAnyOSError(resp) == resp \in {"einprogress", "oserror"}

\* "except OSError as e: if e.errno == 119"
Transient(resp) == resp = "einprogress"

\* The fetch scenario: fetch_json calls on a network manager in any state
\* of its link; the other components stay as constructed.
FetchInit ==
    /\ sched = "display"
    /\ faulty = "clock"
    /\ online = FALSE
    /\ screen_count = Len(Screens)
    /\ RegistryIdle
    /\ ScenarioIdle
    /\ SchedulerInit
    /\ retry_delay = DefaultRetryDelay
    /\ captive_portal_enabled = TRUE
    /\ radio \in BOOLEAN
    /\ connected \in BOOLEAN
    /\ last_connection_attempt = 0
    /\ connection_failures = 0
    /\ consecutive_failures = 0
    /\ backoff_delay = DefaultRetryDelay
    /\ captive_portal_active = FALSE
    /\ net_pc = "idle"
    /\ reconnect_failures = 0
    /\ ap_restarted = FALSE
    /\ last_attempt = 0

fetchRest == <<sched, faulty, screen_count, mark_index, since_mark, gatherVars,
               last_attempt, registryVars, loadVars, stopVars, lateVars, running, online,
               pluginVars, dsVars, last_rotation, ssVars, dispVars, obsVars, envVars,
               retry_delay, captive_portal_enabled, last_connection_attempt,
               connection_failures, consecutive_failures, backoff_delay,
               captive_portal_active, net_pc, reconnect_failures, ap_restarted>>

\* One second passes.
FetchTick ==
    /\ now < MaxTime
    /\ ~(fetch_pc = "sleep" /\ now >= fetch_wake)
    /\ now' = now + 1
    /\ UNCHANGED <<fetchRest, fetchVars, radio, connected>>

\* The link comes or goes while nobody looks.
RadioChange ==
    /\ radio' = ~radio
    /\ UNCHANGED <<fetchRest, fetchVars, now, connected>>

\* One pass through the body of the loop with the response resp, from
\* "response = requests.get(...)" to the return or to the sleep.
Request(resp, attempt, log) ==
    /\ fetch_log' = Append(log, resp)
    /\ fetch_attempt' = attempt
    /\ IF Transient(resp)
       THEN /\ fetch_pc' = "sleep"
            /\ fetch_wake' = now + FetchRetrySleep
            /\ fetch_result' = "pending"
            /\ UNCHANGED fetches
       ELSE /\ fetch_pc' = "idle"
            /\ fetch_result' = IF resp = "200" THEN "data" ELSE "None"
            /\ fetches' = fetches + 1
            /\ UNCHANGED fetch_wake

\* fetch_json, from the call to its return or to its first sleep.
FetchJson(resp) ==
    /\ fetch_pc = "idle"
    /\ fetches < MaxFetches
    /\ connected' = is_connected
    /\ IF ~is_connected
       THEN /\ fetch_result' = "None"
            /\ fetch_log' = <<>>
            /\ fetches' = fetches + 1
            /\ resp = "200"
            /\ UNCHANGED <<fetch_pc, fetch_attempt, fetch_wake>>
       ELSE Request(resp, 0, <<>>)
    /\ UNCHANGED <<fetchRest, now, radio>>

\* fetch_json, from the end of its sleep: "continue", and the next pass
\* through the loop or, after the last one, the final "return None".
FetchRetry(resp) ==
    /\ fetch_pc = "sleep"
    /\ now >= fetch_wake
    /\ IF fetch_attempt + 1 < FetchAttempts
       THEN Request(resp, fetch_attempt + 1, fetch_log)
       ELSE /\ fetch_pc' = "idle"
            /\ fetch_result' = "None"
            /\ fetches' = fetches + 1
            /\ resp = "200"
            /\ UNCHANGED <<fetch_attempt, fetch_wake, fetch_log>>
    /\ UNCHANGED <<fetchRest, now, radio, connected>>

NextFetch ==
    \/ FetchTick
    \/ RadioChange
    \/ \E resp \in Responses : FetchJson(resp)
    \/ \E resp \in Responses : FetchRetry(resp)

SpecFetch == FetchInit /\ [][NextFetch]_vars

\* ------------------------------------------------------ connectivity
Min(a, b) == IF a <= b THEN a ELSE b

\* The connectivity scenario: the network manager of a dashboard whose
\* scheduler has not been started, under any configuration.
NetInit ==
    /\ sched = "display"
    /\ faulty = "clock"
    /\ online = FALSE
    /\ screen_count = Len(Screens)
    /\ RegistryIdle
    /\ ScenarioIdle
    /\ SchedulerInit
    /\ \E rd \in RetryDelays : \E cpe \in BOOLEAN : NetworkManagerInit(rd, cpe)

\* Time passes.
NetAdvance ==
    /\ now + TimeStep <= MaxClock
    /\ now' = now + TimeStep
    /\ UNCHANGED <<schedVars, netVars>>

\* The access point goes away: wifi.radio.connected turns false.
RadioDrop ==
    /\ radio
    /\ net_pc \in {"idle", "probe", "check_health", "check_probe"}
    /\ radio' = FALSE
    /\ UNCHANGED <<schedVars, now, retry_delay, captive_portal_enabled, connected,
                   last_connection_attempt, connection_failures, consecutive_failures,
                   backoff_delay, captive_portal_active, net_pc, reconnect_failures,
                   ap_restarted>>

\* reconnect: "required_delay = min(self.backoff_delay, 300)"
required_delay == Min(backoff_delay, MaxBackoff)

\* reconnect: it goes on to connect() unless
\* "current_time - self.last_connection_attempt < required_delay"
ReconnectAllowed == ~(now - last_connection_attempt < required_delay)

\* Variant: the doubling without its ceiling.
NextBackoffUncapped(delay) == delay * 2

\* reconnect: "self.backoff_delay = min(self.backoff_delay * 2, 300)"
NextBackoff(delay) == Min(delay * 2, MaxBackoff)

\* Dashboard._init_network: the connect() of start-up is awaited.
InitNetwork ==
    /\ net_pc = "boot"
    /\ net_pc' = "connect_boot"
    /\ UNCHANGED <<schedVars, now, retry_delay, captive_portal_enabled, radio, connected,
                   last_connection_attempt, connection_failures, consecutive_failures,
                   backoff_delay, captive_portal_active, reconnect_failures,
                   ap_restarted>>

\* Dashboard._periodic_tasks: reconnect() when is_connected() says no, up to
\* the refusal of reconnect or to its "await self.connect()".
PeriodicTasks ==
    /\ net_pc = "idle"
    /\ connected' = is_connected
    /\ net_pc' = IF ~is_connected /\ ReconnectAllowed
                 THEN "reconnect_periodic" ELSE "idle"
    /\ UNCHANGED <<schedVars, now, retry_delay, captive_portal_enabled, radio,
                   last_connection_attempt, connection_failures, consecutive_failures,
                   backoff_delay, captive_portal_active, reconnect_failures,
                   ap_restarted>>

\* maintain_system_health, from its start to the first await that suspends:
\* the early return while the captive portal is active, else the
\* connectivity check and the first reconnect().
MaintainSystemHealth ==
    /\ net_pc = "idle"
    /\ IF captive_portal_active
       THEN UNCHANGED <<connected, net_pc>>
       ELSE /\ connected' = is_connected
            /\ net_pc' = IF is_connected THEN "probe"
                         ELSE IF ReconnectAllowed THEN "reconnect_health"
                         ELSE "check_health"
    /\ UNCHANGED <<schedVars, now, retry_delay, captive_portal_enabled, radio,
                   last_connection_attempt, connection_failures, consecutive_failures,
                   backoff_delay, captive_portal_active, reconnect_failures,
                   ap_restarted>>

\* Where the caller of connect() goes on when connect() has returned ok.
AfterConnect(pc, ok) ==
    CASE pc = "connect_boot" -> "idle"
      [] pc = "reconnect_periodic" -> "idle"
      [] pc = "reconnect_health" -> IF ok THEN "probe" ELSE "check_health"
      [] pc = "reconnect_probe" -> IF ok THEN "idle" ELSE "check_probe"

\* connect() returns, to Dashboard._init_network or to reconnect(), which
\* then does its bookkeeping: the counters and the backoff delay.
ConnectReturns(ok) ==
    /\ net_pc \in {"connect_boot", "reconnect_periodic", "reconnect_health",
                   "reconnect_probe"}
    /\ ~ok => consecutive_failures < MaxFailures
    /\ radio' = ok
    /\ connected' = ok
    /\ connection_failures' = IF ok THEN 0 ELSE connection_failures + retry_count
    /\ last_connection_attempt' = IF ok THEN last_connection_attempt ELSE now
    /\ IF net_pc = "connect_boot"
       THEN UNCHANGED <<consecutive_failures, backoff_delay, reconnect_failures>>
       ELSE /\ consecutive_failures' = IF ok THEN 0 ELSE consecutive_failures + 1
            /\ backoff_delay' = IF ok THEN retry_delay ELSE NextBackoff(backoff_delay)
            /\ reconnect_failures' = IF ok THEN 0 ELSE reconnect_failures + 1
    /\ net_pc' = AfterConnect(net_pc, ok)
    /\ last_attempt' = now
    /\ UNCHANGED <<sched, faulty, screen_count, mark_index, since_mark, gatherVars,
                   registryVars, scenarioVars, running, online, pluginVars, dsVars, last_rotation, ssVars, dispVars,
                   obsVars, envVars, now, retry_delay, captive_portal_enabled,
                   captive_portal_active, ap_restarted>>

\* Variant: the fallback without its failure threshold.
ShouldFallbackAtOnce ==
    /\ consecutive_failures >= 1
    /\ ~captive_portal_active
    /\ captive_portal_enabled

\* check_captive_portal_fallback: its condition
ShouldFallback ==
    /\ consecutive_failures >= FallbackThreshold
    /\ ~captive_portal_active
    /\ captive_portal_enabled

\* maintain_system_health: "await self.check_captive_portal_fallback()"
\* after a reconnect() that returned False, with start_captive_portal when
\* the condition holds; started says whether wifi.radio.start_ap went through.
CheckFallback(started) ==
    /\ net_pc \in {"check_health", "check_probe"}
    /\ IF ShouldFallback /\ captive_portal_enabled
       THEN /\ radio' = FALSE
            /\ captive_portal_active' = started
            /\ connected' = IF started THEN FALSE ELSE connected
            /\ ap_restarted' = (ap_restarted \/ captive_portal_active)
       ELSE /\ started
            /\ UNCHANGED <<radio, captive_portal_active, connected, ap_restarted>>
    /\ net_pc' = IF net_pc = "check_health" THEN "probe" ELSE "idle"
    /\ UNCHANGED <<schedVars, now, retry_delay, captive_portal_enabled,
                   last_connection_attempt, connection_failures, consecutive_failures,
                   backoff_delay, reconnect_failures>>

\* maintain_system_health: "if self.is_connected():" with test_connectivity
\* (reachable: what the probe finds) and the second reconnect().
Probe(reachable) ==
    /\ net_pc = "probe"
    /\ connected' = is_connected
    /\ net_pc' = IF ~is_connected \/ reachable THEN "idle"
                 ELSE IF ReconnectAllowed THEN "reconnect_probe"
                 ELSE "check_probe"
    /\ ~is_connected => reachable
    /\ UNCHANGED <<schedVars, now, retry_delay, captive_portal_enabled, radio,
                   last_connection_attempt, connection_failures, consecutive_failures,
                   backoff_delay, captive_portal_active, reconnect_failures,
                   ap_restarted>>

\* stop_captive_portal
StopCaptivePortal ==
    /\ net_pc = "idle"
    /\ captive_portal_active
    /\ captive_portal_active' = FALSE
    /\ UNCHANGED <<schedVars, now, retry_delay, captive_portal_enabled, radio, connected,
                   last_connection_attempt, connection_failures, consecutive_failures,
                   backoff_delay, net_pc, reconnect_failures, ap_restarted>>

NextNet ==
    \/ NetAdvance
    \/ RadioDrop
    \/ InitNetwork
    \/ PeriodicTasks
    \/ MaintainSystemHealth
    \/ \E ok \in BOOLEAN : ConnectReturns(ok)
    \/ \E started \in BOOLEAN : CheckFallback(started)
    \/ \E reachable \in BOOLEAN : Probe(reachable)
    \/ StopCaptivePortal

SpecNet == NetInit /\ [][NextNet]_vars


\* ================================================================ claims
\* The failure count the pull loop of the running scheduler keeps for w:
\* PluginTask.error_count in _pull_task_loop, plugin.error_count in
\* _screen_pull_loop.
Count(w) ==
    IF sched = "display" THEN active_plugins[w].error_count ELSE error_count[w]

\* the screen whose pull loop serves w
ScreenOf(w) == CHOOSE s \in Range(Screens) : w \in Range(ScreenPlugins[s])

\* A pull of w is awaited.
InFlight(w) ==
    IF sched = "display" THEN active_plugins[w].pc = "pulling"
    ELSE \E s \in Range(Screens) :
            /\ pull_loop[s].pc = "pulling"
            /\ ScreenPlugins[s][pull_loop[s].idx] = w

\* This step is the return of a pull of w to its pull loop.
PullReturns(w) ==
    /\ InFlight(w)
    /\ IF sched = "display" THEN active_plugins'[w].pc # "pulling"
       ELSE pull_loop'[ScreenOf(w)] # pull_loop[ScreenOf(w)]

\* The time before which the pull loop will not pull w again.
NextRun(w) ==
    IF sched = "display" THEN active_plugins[w].next_run
    ELSE pull_loop[ScreenOf(w)].last_pull_times[PluginName(w)] + Interval(w)

PullPlugins == {w \in Plugins : RefreshType(w) = "pull"}

\* The display task is between the clear and the sleep of one render tick.
MidFrame == display_pc \in {"render", "done"}

C2_OfflineNotPenalised ==
    [][\A w \in Plugins :
        (NetGated(w) /\ ~online /\ PullReturns(w)) =>
            /\ Count(w)' <= Count(w)
            /\ enabled[w] => enabled'[w]]_vars

\* C3: when a pull of a plugin returns, succeeded or failed, the plugin is
\* not pulled again before the time of the return plus its interval.
C3_NextRunAfterCompletion ==
    [][\A w \in PullPlugins :
        PullReturns(w) => NextRun(w)' = now + Interval(w)]_vars

\* C4: in a render tick of the screen scheduler where the render of a
\* plugin raised, the render of every other enabled plugin of the screen was
\* called all the same and the tick ends with the presentation of the frame.
C4_RenderFaultIsolated ==
    (sched = "screen" /\ display_pc = "done") =>
        \A i \in DOMAIN frame :
            frame[i].result = "raise" =>
                /\ \A b \in Range(ScreenPlugins[CurrentScreen]) :
                      (enabled[b] /\ b # frame[i].plugin) =>
                          \E j \in DOMAIN frame :
                              frame[j].op = "render" /\ frame[j].plugin = b
                /\ frame[Len(frame)] = Presented

C4_Witness ==
    /\ sched = "screen" /\ display_pc = "done"
    /\ \E i, j \in DOMAIN frame :
          /\ i < j
          /\ frame[i].result = "raise"
          /\ frame[j].op = "render" /\ frame[j].plugin # frame[i].plugin

\* C5: a render tick of the screen scheduler presents the buffer exactly
\* once; the presentation is the last step of the tick, after the clear and
\* after the render call of every enabled plugin of the screen.
C5_PresentOnceAtEnd ==
    sched = "screen" =>
        LET presents == {i \in DOMAIN frame : frame[i] = Presented}
        IN /\ Cardinality(presents) = IF display_pc = "done" THEN 1 ELSE 0
           /\ \A i \in presents :
                 /\ i = Len(frame)
                 /\ frame[1] = Cleared
                 /\ \A b \in Range(ScreenPlugins[CurrentScreen]) :
                       enabled[b] =>
                           \E j \in 1..(i - 1) :
                               frame[j].op = "render" /\ frame[j].plugin = b

C5_Witness ==
    /\ sched = "screen" /\ display_pc = "done"
    /\ Len(frame) = 5
    /\ frame[5] = Presented

\* C6: between the clear and the end of one render tick no other task takes
\* a step: time, connectivity, the plugins' data and enabled flags and the
\* state of every pull task stay as they are.
C6_RenderCycleAtomic ==
    [][MidFrame =>
        UNCHANGED <<now, online, enabled, data, last_update, config_enabled,
                    active_plugins, pull_loop, pull_calls, ticks>>]_vars

C6_Witness ==
    /\ MidFrame /\ PullLoopReady
    /\ sched = "screen" /\ render_idx = 2
    /\ data["clock"] # {}

\* C11: after as many rotate_screen calls in a row as there are screens,
\* current_screen_index is back at the value it had before the first call.
C11_RotationWrapsAround ==
    since_mark = screen_count => current_screen_index = mark_index

C11_Witness ==
    /\ screen_count = 3 /\ since_mark = 3
    /\ mark_index = 1 /\ current_screen_index = 1

\* C12: with at least one screen the index names one of the screens; a
\* step changes the index only to (index + 1) mod count; with at most one
\* screen no step changes the index or the rotation timer.
C12_OneCurrentScreen ==
    /\ screen_count >= 1 => current_screen_index \in 0..(screen_count - 1)
    /\ [][/\ screen_count >= 1 => current_screen_index' \in 0..(screen_count - 1)
          /\ current_screen_index' # current_screen_index =>
                current_screen_index' = (current_screen_index + 1) % screen_count
          /\ screen_count <= 1 =>
                UNCHANGED <<current_screen_index, last_rotation>>]_vars

C12_Witness ==
    /\ screen_count = 1 /\ since_mark >= 2
    /\ now - last_rotation >= rotation_interval

\* C7 as stated: after k consecutive failed reconnection attempts the backoff
\* delay is min(retry_delay * 2^k, 300), for every k >= 0, and it is
\* retry_delay when no reconnection has failed since the last success.
C7_BackoffAsStated ==
    /\ backoff_delay = Min(retry_delay * 2^reconnect_failures, MaxBackoff)
    /\ reconnect_failures = 0 => backoff_delay = retry_delay

\* C7 amended: the delay reconnect enforces after k consecutive failed
\* attempts is min(retry_delay * 2^k, 300) under every configuration; the
\* stored backoff_delay equals it when retry_delay is at most 300, and is
\* retry_delay itself, whatever its size, when no reconnection has failed
\* since the last success.
C7_BackoffDelay ==
    /\ required_delay = Min(retry_delay * 2^reconnect_failures, MaxBackoff)
    /\ retry_delay <= MaxBackoff =>
          backoff_delay = Min(retry_delay * 2^reconnect_failures, MaxBackoff)
    /\ reconnect_failures = 0 => backoff_delay = retry_delay

C7_Witness ==
    /\ reconnect_failures >= 2
    /\ retry_delay * 2^reconnect_failures > MaxBackoff
    /\ retry_delay < MaxBackoff
    /\ backoff_delay = MaxBackoff

\* C8: the captive portal turns from inactive to active only in a state
\* where consecutive_failures >= 3 and the portal is enabled in the
\* configuration, and the access point is never started again while the
\* portal is active.
C8_FallbackOncePerEpisode ==
    [][/\ (~captive_portal_active /\ captive_portal_active') =>
            (consecutive_failures >= FallbackThreshold /\ captive_portal_enabled)
       /\ ~ap_restarted']_vars

C8_Witness ==
    /\ captive_portal_active
    /\ net_pc = "reconnect_periodic"
    /\ consecutive_failures > FallbackThreshold

\* C9: a plugin every pull of which raised is enabled after the fifth pull;
\* after the sixth it is disabled and its error_count, the value get_status
\* reports, is 6; it is never pulled a seventh time.
C9_SixFailures ==
    \A w \in PullPlugins :
        only_raised[w] =>
            /\ pull_calls[w] <= ErrorBudget + 1
            /\ (pull_calls[w] = ErrorBudget /\ ~InFlight(w)) => enabled[w]
            /\ (pull_calls[w] = ErrorBudget + 1 /\ ~InFlight(w)) =>
                    ~enabled[w] /\ error_count[w] = ErrorBudget + 1

\* C10 as stated: after three scheduler ticks a plugin with a one second
\* interval has been pulled exactly three times.
C10_ThreeTicksThreePulls ==
    \A w \in PullPlugins :
        (Interval(w) = PullCheckPeriod /\ ticks[w] = 3) => pull_calls[w] = 3

\* C10 amended: a plugin with a one second interval is pulled once in every
\* scheduler tick, except that the first tick of DisplayScheduler, which
\* comes less than one interval after add_plugin, does not pull.
C10_OnePullPerTick ==
    \A w \in PullPlugins :
        Interval(w) = PullCheckPeriod =>
            pull_calls[w] =
                IF sched = "display" /\ ticks[w] >= 1 THEN ticks[w] - 1 ELSE ticks[w]

C10_Witness ==
    /\ sched = "display"
    /\ ticks["clock"] = 3 /\ pull_calls["clock"] = 2

\* C13: the error_count of a plugin goes up only in a step that is the
\* return of one of its pulls, and no step of a render cycle, a raising
\* render included, changes the data, error_count or enabled of any plugin.
C13_RenderWritesNothing ==
    [][/\ \A w \in Plugins : error_count'[w] > error_count[w] => PullReturns(w)
       /\ display_pc = "render" => UNCHANGED <<data, error_count, enabled>>]_vars

\* C14: while a plugin is disabled, no step invokes its pull and no step
\* invokes its render.
C14_DisabledNotTouched ==
    [][\A w \in Plugins :
        ~enabled[w] =>
            /\ pull_calls'[w] = pull_calls[w]
            /\ Len(frame') > Len(frame) =>
                  \A i \in (Len(frame) + 1)..Len(frame') : frame'[i].plugin # w]_vars

\* C16: the pull of a push-type plugin is never invoked.
C16_PushNeverPulled ==
    \A w \in Plugins : RefreshType(w) = "push" => pull_calls[w] = 0

C16_Witness ==
    \E w \in Plugins :
        /\ RefreshType(w) = "push"
        /\ enabled[w]
        /\ ticks[w] >= 2
        /\ now >= Interval(w) + Interval(w)

\* The number of invocations of w.pull() that have not returned yet.
SuspendedPulls(w) ==
    (IF InFlight(w) THEN 1 ELSE 0)
    + (IF sched = "screen" /\ gathering[ScreenOf(w)] /\ w \in Gathered(ScreenOf(w))
       THEN 1 ELSE 0)

\* C15: at most one invocation of a plugin's pull is suspended at any time.
C15_OnePullInFlight ==
    \A w \in Plugins : SuspendedPulls(w) <= 1

\* reconnect() is suspended in its "await self.connect()".
ReconnectPcs == {"reconnect_periodic", "reconnect_health", "reconnect_probe"}
Reconnecting == net_pc \in ReconnectPcs

\* C17: a reconnect() called before the backoff delay has elapsed since the
\* last connection attempt makes no attempt, whatever the earlier attempts
\* came to.
C17_EarlyReconnectRefused ==
    [][(~Reconnecting /\ now - last_attempt < required_delay) =>
          net_pc' \notin ReconnectPcs]_vars

\* C18: connect() on success sets connected and resets consecutive_failures
\* to 0, and on failure adds one to consecutive_failures, whoever called it.
C18_ConnectCountsFailures ==
    [][(net_pc \in {"connect_boot"} \cup ReconnectPcs /\ net_pc' # net_pc) =>
          IF radio'
          THEN connected' /\ consecutive_failures' = 0
          ELSE consecutive_failures' = consecutive_failures + 1]_vars

\* C19: the data of a plugin is the mapping its latest successful pull
\* returned (or the empty mapping of construction): no key of an earlier
\* mapping survives.
C19_DataIsLastMapping ==
    \A w \in Plugins : data[w] \in PullKeys(w) \cup {{}}

\* C20: a create_plugin_instance call for a registered name builds the
\* instance on the recursive merge of the default configuration with the
\* user configuration; for an unregistered name it creates no instance.
C20_ConfigIsRecursiveMerge ==
    registry_pc = "returned" =>
        IF plugin_name \in Registered
        THEN /\ instance.created
             /\ instance.config = RecursiveMerge(default_config, user_config)
        ELSE ~instance.created

\* The globally enabled widgets: the entries of config['plugins'] that are
\* not switched off.
GloballyEnabled == {n \in Range(ConfigNames) : plugins_config[n] = "on"}

\* C21: after load_screens there is at least one screen; with no screen
\* declared there is exactly one, 'default', holding every globally enabled
\* widget.
C21_AtLeastOneScreen ==
    load_pc = "loaded" =>
        /\ Len(screens) >= 1
        /\ screens_config = <<>> =>
              /\ Len(screens) = 1
              /\ screens[1].name = "default"
              /\ Range(screens[1].plugins) = GloballyEnabled \cap Registered

\* This step is the return of a pull of w that its pull loop books as a
\* failure.
PullFails(w) ==
    /\ PullReturns(w)
    /\ IF sched = "display"
       THEN active_plugins'[w].error_count > active_plugins[w].error_count
       ELSE error_count'[w] > error_count[w]

\* Every task the scheduler started is in its loop: suspended in a sleep or
\* in a pull, or running a frame.
LoopsAlive ==
    /\ display_pc # "none"
    /\ sched = "display" =>
          \A w \in Plugins : active_plugins[w].present /\ Pullable(w) =>
                                active_plugins[w].pc \in {"sleep", "pulling"}
    /\ sched = "screen" =>
          \A s \in Range(Screens) : pull_loop[s].pc \in {"sleep", "pulling"}

\* C22: a failed pull of w, with or without the disabling of w, leaves the
\* data, error count, enabled flag and pull schedule of every other plugin
\* as they were, and no pull loop and no render loop ends while the
\* scheduler runs.
C22_FailureContained ==
    /\ [](running => LoopsAlive)
    /\ [][\A w \in Plugins : PullFails(w) =>
            \A v \in Plugins \ {w} :
                /\ data'[v] = data[v]
                /\ error_count'[v] = error_count[v]
                /\ enabled'[v] = enabled[v]
                /\ active_plugins'[v].error_count = active_plugins[v].error_count
                /\ NextRun(v)' = NextRun(v)]_vars

\* w was disabled by its failure budget next to a plugin that works, and
\* the display loop has gone on to a later frame.
C22_Witness ==
    \E w \in Plugins : \E v \in Plugins \ {w} :
        /\ running /\ ~enabled[w] /\ config_enabled[w]
        /\ enabled[v] /\ data[v] # {} /\ error_count[v] = 0
        /\ w \in Range(ScreenPlugins[ScreenOf(v)])
        /\ frame # <<>>

\* No stop() call is under way and the scheduler is not running.
Stopped == ~running /\ stop_pc = "none"

\* No task of the scheduler is alive.
NoTaskLeft ==
    /\ display_pc = "none"
    /\ \A w \in Plugins : active_plugins[w].pc = "none"
    /\ \A s \in Range(Screens) : pull_loop[s].pc = "none"

\* This step invokes the render of some plugin.
RenderInvoked ==
    /\ Len(frame') > Len(frame)
    /\ \E i \in (Len(frame) + 1)..Len(frame') : frame'[i].op = "render"

\* C23: once stop() has returned no scheduler task is left, and until the
\* next start() no pull and no render is invoked on any plugin.
C23_StopEndsEverything ==
    /\ [](Stopped => NoTaskLeft)
    /\ [][Stopped => pull_calls' = pull_calls /\ ~RenderInvoked]_vars

\* stop() has returned on a scheduler that had pulled and was about to
\* pull again, and a plugin has come due since.
C23_Witness ==
    /\ Stopped /\ stops > 0
    /\ \E w \in Plugins :
          /\ pull_calls[w] > 0
          /\ Pullable(w)
          /\ now > NextRun(w)

\* The fetch_json call has returned.
FetchReturned == fetch_pc = "idle" /\ fetches > 0

\* C24: one fetch_json call makes at most 3 requests; every request but
\* the last failed with EINPROGRESS; a request that ends otherwise ends the
\* call at once, with failure unless it was a good 200; and the call fails
\* after the third EINPROGRESS.
C24_ThreeAttemptsOnTransient ==
    /\ Len(fetch_log) <= 3
    /\ \A i \in 1..(Len(fetch_log) - 1) : fetch_log[i] = "einprogress"
    /\ fetch_pc = "sleep" =>
          fetch_log # <<>> /\ fetch_log[Len(fetch_log)] = "einprogress"
    /\ (FetchReturned /\ fetch_log # <<>>) =>
          LET last == fetch_log[Len(fetch_log)]
          IN  /\ last = "einprogress" => Len(fetch_log) = 3
              /\ fetch_result = IF last = "200" THEN "data" ELSE "None"

C24_Witness ==
    /\ FetchReturned
    /\ fetch_log = <<"einprogress", "einprogress", "einprogress">>
    /\ fetch_result = "None"

\* The last pull of the network widget w came back empty-handed for want of
\* a connection: w is not the plugin whose source misbehaves, and its pull
\* loop has pulled it since it last delivered data.
SkippedOffline(w) ==
    /\ sched = "screen"
    /\ NetGated(w) /\ w # faulty
    /\ ~InFlight(w)
    /\ pull_loop[ScreenOf(w)].last_pull_times[PluginName(w)] > last_update[w]

\* C25: a pull that came due while the network was down stays due: the
\* first tick that examines the widget with the network back invokes its
\* pull.
C25_SkippedPullStaysDue ==
    [][\A w \in Plugins :
          (SkippedOffline(w) /\ online /\ enabled[w] /\ ticks'[w] > ticks[w]) =>
              pull_calls'[w] > pull_calls[w]]_vars

\* This step is the return of a pull of w that did not raise. The screen
\* pull loop counts a failure exactly when the pull raised; in the display
\* scheduler the first such return of w is the one that ends only_raised.
ReturnsWithoutRaising(w) ==
    /\ PullReturns(w)
    /\ IF sched = "screen" THEN error_count'[w] <= error_count[w]
       ELSE only_raised[w] /\ ~only_raised'[w]

\* C26: a pull that returns without raising, whatever it returns, resets
\* the failure count of its plugin to 0 and sets last_update to the time of
\* the pull.
C26_SuccessResetsCount ==
    [][\A w \in Plugins : ReturnsWithoutRaising(w) =>
            /\ Count(w)' = 0
            /\ last_update'[w] = IF sched = "screen"
                                 THEN pull_loop[ScreenOf(w)].current_time
                                 ELSE now]_vars

\* The time stamp the success bookkeeping of a pull of w writes.
PullStamp(w) ==
    IF sched = "screen" THEN pull_loop[ScreenOf(w)].current_time ELSE now

\* This step cancels the pull task of w while a pull of w is in flight.
CancelledInFlight(w) ==
    /\ InFlight(w)
    /\ IF sched = "display" THEN active_plugins'[w].pc = "none"
       ELSE pull_loop'[ScreenOf(w)].pc = "none"

\* C27: between two points at which its pull task can be cancelled a pull
\* books everything or nothing: its return sets last_update and resets the
\* failure count together, or leaves data and last_update alone; and the
\* cancellation of a pull in flight writes none of data, last_update and
\* the failure count (the count of a removed plugin goes with its task).
C27_CancelledPullConsistent ==
    [][\A w \in Plugins :
          /\ CancelledInFlight(w) =>
                /\ data'[w] = data[w]
                /\ last_update'[w] = last_update[w]
                /\ error_count'[w] = error_count[w]
                /\ active_plugins'[w].present =>
                      active_plugins'[w].error_count = active_plugins[w].error_count
          /\ (PullReturns(w) /\ ~CancelledInFlight(w)) =>
                \/ last_update'[w] = PullStamp(w) /\ Count(w)' = 0
                \/ /\ data'[w] = data[w]
                   /\ last_update'[w] = last_update[w]
                   /\ Count(w)' >= Count(w)]_vars

\* stop() is about to cancel the pull tasks while the pull of a plugin that
\* has been pulled with success before is in flight.
C27_Witness ==
    /\ stop_pc = "display"
    /\ \E w \in Plugins :
          /\ InFlight(w)
          /\ data[w] # {}
          /\ last_update[w] > 0

\* C28: while the captive portal is active no periodic task starts a
\* station-mode connection attempt.
C28_NoAttemptDuringFallback ==
    [][(captive_portal_active /\ ~Reconnecting) => net_pc' \notin ReconnectPcs]_vars

\* The connectivity of the running dashboard: Dashboard.start awaits
\* _init_network and Dashboard._update_loop then calls _periodic_tasks on
\* every pass; nothing in the dashboard calls maintain_system_health.
NextRunning ==
    \/ NetAdvance
    \/ RadioDrop
    \/ InitNetwork
    \/ PeriodicTasks
    \/ \E ok \in BOOLEAN : ConnectReturns(ok)

\* The update loop keeps running its periodic tasks, an awaited connect()
\* returns and start-up goes on to _init_network.
RunningFairness ==
    /\ WF_vars(InitNetwork)
    /\ WF_vars(PeriodicTasks)
    /\ WF_vars(\E ok \in BOOLEAN : ConnectReturns(ok))

SpecRunning == NetInit /\ [][NextRunning]_vars /\ RunningFairness

\* C29: in the running dashboard, once reconnection has failed three times
\* in a row with the fallback enabled and not active, fallback mode
\* eventually becomes active.
C29_FallbackEventuallyActive ==
    ShouldFallback ~> captive_portal_active

\* maintain_system_health has seen test_connectivity fail in this step.
ProbeFailed ==
    /\ net_pc = "probe"
    /\ net_pc' \in {"reconnect_probe", "check_probe"}

\* C30: a failed reachability probe is treated as link loss: after it
\* is_connected reports false, as it does after the link was lost.
C30_FailedProbeIsLinkLoss ==
    [][ProbeFailed => ~(radio' /\ connected')]_vars

\* get_status, get_network_info and get_connection_quality, and the pull
\* path of the network widgets: each calls is_connected(), which clears
\* self.connected when wifi.radio.connected is false; the rest is read.
GetStatus ==
    /\ connected' = is_connected
    /\ UNCHANGED <<schedVars, now, retry_delay, captive_portal_enabled, radio,
                   last_connection_attempt, connection_failures, consecutive_failures,
                   backoff_delay, captive_portal_active, net_pc, reconnect_failures,
                   ap_restarted>>

\* The connectivity scenario with its readers.
NextStatus ==
    \/ NextNet
    \/ GetStatus

SpecStatus == NetInit /\ [][NextStatus]_vars

\* C31: reading the connectivity state through is_connected, get_status,
\* get_network_info or get_connection_quality leaves connected,
\* consecutive_failures, backoff_delay and the fallback flag unchanged.
C31_ReadersWriteNothing ==
    [][GetStatus => UNCHANGED <<connected, consecutive_failures, backoff_delay,
                                captive_portal_active>>]_vars

\* ------------------------------------------------------------- main()
\* Everything outside the scenarios of lateVars.
coreRest == <<sched, faulty, screen_count, mark_index, since_mark, gatherVars,
              last_attempt, registryVars, loadVars, stopVars, fetchVars, now, running,
              online, pluginVars, dsVars, last_rotation, ssVars, dispVars, obsVars,
              envVars, netVars>>

\* The supervisor scenario: main() has not been entered yet.
MainInit ==
    /\ sched = "display"
    /\ faulty = "clock"
    /\ online = FALSE
    /\ screen_count = Len(Screens)
    /\ RegistryIdle
    /\ ScenarioIdle
    /\ SchedulerInit
    /\ NetworkManagerInit(DefaultRetryDelay, TRUE)

\* main, up to "while True:", at power-on and after microcontroller.reset():
\* setup_watchdog returns a timer or None.
MainBoot(timer) ==
    /\ main_pc \in {"off", "reset"}
    /\ main_pc' = "loop"
    /\ restart_count' = 0
    /\ dashboard' = FALSE
    /\ wdt' = timer
    /\ last_sleep' = 0
    /\ failed_runs' = 0
    /\ UNCHANGED <<coreRest, instVars, saveVars, tailVars>>

\* What one pass of the loop comes to: Dashboard() raises, dashboard.run()
\* raises, dashboard.run() returns, or KeyboardInterrupt.
Outcomes == {"construct_raises", "run_raises", "run_returns", "interrupt"}

\* "dashboard = Dashboard()" and then "restart_count = 0" when dashboard
\* was None and the construction went through.
CountAfterConstruction(count, built) == IF built THEN 0 ELSE count

\* One pass of "while True:", which holds no await: the try block and the
\* except clause that the outcome selects.
MainPass(outcome) ==
    /\ main_pc = "loop"
    /\ outcome = "construct_raises" => ~dashboard
    /\ LET built == ~dashboard /\ outcome # "construct_raises"
           count == CountAfterConstruction(restart_count, built)
       IN  CASE outcome = "interrupt" ->
                  /\ main_pc' = "stopped"
                  /\ restart_count' = count
                  /\ dashboard' = TRUE
                  /\ UNCHANGED <<last_sleep, failed_runs>>
             [] outcome = "run_returns" ->
                  /\ main_pc' = "loop"
                  /\ restart_count' = count
                  /\ dashboard' = TRUE
                  /\ failed_runs' = 0
                  /\ UNCHANGED last_sleep
             [] OTHER ->
                  /\ failed_runs < MaxFailedRuns
                  /\ restart_count' = count + 1
                  /\ dashboard' = FALSE
                  /\ last_sleep' = IF count + 1 > EscalateAfter
                                   THEN LongWait ELSE ShortWait
                  /\ main_pc' = IF count + 1 > ResetAfter THEN "reset" ELSE "loop"
                  /\ failed_runs' = failed_runs + 1
    /\ UNCHANGED <<coreRest, instVars, saveVars, tailVars, wdt>>

NextMain ==
    \/ \E timer \in BOOLEAN : MainBoot(timer)
    \/ \E outcome \in Outcomes : MainPass(outcome)

SpecMain == MainInit /\ [][NextMain]_vars

\* C32: the supervisor loop bounds restarts: when the dashboard has failed
\* more than 10 times in a row, in construction or after it started
\* running, the microcontroller has been hard-reset.
C32_RestartsBounded ==
    failed_runs > ResetAfter => main_pc = "reset"

\* -------------------------------------- two instances on one screen
\* The scenario: a screen of the screen scheduler on which load_screens put
\* two pull-type instances, of the same plugin or of two plugins.
InstInit ==
    /\ sched = "screen"
    /\ faulty = "clock"
    /\ online = TRUE
    /\ screen_count = Len(Screens)
    /\ RegistryIdle
    /\ LoadIdle /\ StopIdle /\ FetchIdle /\ MainIdle /\ SaveIdle /\ TailIdle
    /\ SchedulerInit
    /\ NetworkManagerInit(DefaultRetryDelay, TRUE)
    /\ inst_name \in [Instances -> InstanceNames]
    /\ inst_enabled = [i \in Instances |-> TRUE]
    /\ inst_errors = [i \in Instances |-> 0]
    /\ inst_pulled = [i \in Instances |-> 0]
    /\ last_pull_times = [n \in InstanceNames |-> 0]
    /\ inst_idx = 0
    /\ inst_time = 0
    /\ inst_wake = 0

\* "if (current_time - last_pull) >= interval" for instance i, with
\* "last_pull = last_pull_times.get(plugin_name, 0)"
InstDue(i, lpt, ct) == (ct - lpt[inst_name[i]]) >= Interval(inst_name[i])

\* The for loop from instance i on: the first enabled instance that is due,
\* 0 when the loop reaches its end.
RECURSIVE InstScan(_, _, _, _)
InstScan(i, en, lpt, ct) ==
    IF i \notin Instances THEN 0
    ELSE IF en[i] /\ InstDue(i, lpt, ct) THEN i
    ELSE InstScan(i + 1, en, lpt, ct)

\* The loop goes on from instance i: it awaits the next pull() or sleeps.
InstGoOn(i, en, lpt, ct) ==
    LET j == InstScan(i, en, lpt, ct)
    IN  /\ inst_idx' = j
        /\ inst_pulled' = IF j = 0 THEN inst_pulled ELSE [inst_pulled EXCEPT ![j] = ct]
        /\ inst_wake' = IF j = 0 THEN now + PullCheckPeriod ELSE inst_wake

\* Time passes while the loop sleeps.
InstTick ==
    /\ inst_idx = 0
    /\ now < inst_wake
    /\ now < MaxTime
    /\ now' = now + 1
    /\ UNCHANGED <<schedVars, netVars>>

instRest == <<sched, faulty, screen_count, mark_index, since_mark, gatherVars,
              last_attempt, registryVars, loadVars, stopVars, fetchVars, mainVars,
              saveVars, tailVars, running, online, pluginVars, dsVars, last_rotation, ssVars, dispVars,
              obsVars, envVars, netVars>>

\* _screen_pull_loop: a pass starts, "current_time = time.monotonic()", and
\* runs to its first "await plugin.pull()" or to its sleep.
InstPass ==
    /\ inst_idx = 0
    /\ now >= inst_wake
    /\ inst_time' = now
    /\ InstGoOn(1, inst_enabled, last_pull_times, now)
    /\ UNCHANGED <<instRest, now, inst_name, inst_enabled, inst_errors, last_pull_times>>

\* _screen_pull_loop: pull() of the awaited instance comes back, with the
\* bookkeeping, and the for loop goes on.
InstPullDone(kind) ==
    /\ inst_idx > 0
    /\ LET i == inst_idx
           raised == kind = "raise"
           count == IF raised THEN inst_errors[i] + 1
                    ELSE IF kind = "ok" THEN 0 ELSE inst_errors[i]
           en == IF raised /\ OverBudget(count)
                 THEN [inst_enabled EXCEPT ![i] = FALSE] ELSE inst_enabled
           lpt == IF raised THEN last_pull_times
                  ELSE [last_pull_times EXCEPT ![inst_name[i]] = inst_time]
       IN /\ inst_errors' = [inst_errors EXCEPT ![i] = count]
          /\ inst_enabled' = en
          /\ last_pull_times' = lpt
          /\ InstGoOn(i + 1, en, lpt, inst_time)
    /\ UNCHANGED <<instRest, now, inst_name, inst_time>>

NextInst ==
    \/ InstTick
    \/ InstPass
    \/ \E kind \in {"ok", "none", "raise"} : InstPullDone(kind)

SpecInst == InstInit /\ [][NextInst]_vars

\* C33: each pull-capable instance has its own pull timer: once a pass of
\* the pull loop is over, every enabled instance of the screen has had its
\* pull invoked within its interval, also when two instances share their
\* metadata name.
C33_IndependentPullTimers ==
    (inst_idx = 0 /\ now < inst_wake) =>
        \A i \in Instances :
            inst_enabled[i] => now - inst_pulled[i] < Interval(inst_name[i])

\* ------------------------------------------------------ ConfigManager
\* The scenario: a configuration manager over a file system that holds a
\* configuration file or none, and a backup of an earlier save or none.
SaveInit ==
    /\ sched = "display"
    /\ faulty = "clock"
    /\ online = FALSE
    /\ screen_count = Len(Screens)
    /\ RegistryIdle
    /\ LoadIdle /\ StopIdle /\ FetchIdle /\ MainIdle /\ InstIdle /\ TailIdle
    /\ SchedulerInit
    /\ NetworkManagerInit(DefaultRetryDelay, TRUE)
    /\ file_config \in {"absent", ConfigVersions[2]}
    /\ file_backup \in {"absent", ConfigVersions[1]}
    /\ file_temp = "absent"
    /\ save_pc = "idle"
    /\ saving = "absent"
    /\ save_old = "absent"
    /\ loaded = "pending"
    /\ saves = 0

saveRest == <<coreRest, mainVars, instVars, tailVars>>

\* load_config: open(config_file) raises OSError when the file is absent
\* and the defaults are returned; a file that does not parse sends it to
\* the backup, and to the defaults when that is absent or does not parse.
load_config(config, backup) ==
    IF config = "absent" THEN "defaults"
    ELSE IF config # "partial" THEN config
    ELSE IF backup \notin {"absent", "partial"} THEN backup
    ELSE "defaults"

\* os.rename(src, dst) on the pair of contents <<src, dst>>: OSError and no
\* change when src is absent.
rename(src, dst) == IF src = "absent" THEN <<src, dst>> ELSE <<"absent", src>>

\* save_config, "os.rename(self.config_file, self.config_backup)" with its
\* except clause
SaveBackup ==
    /\ save_pc \in {"idle", "recovered"}
    /\ saves < MaxSaves
    /\ saves' = saves + 1
    /\ saving' = ConfigVersions[saves + 3]
    /\ save_old' = file_config
    /\ loaded' = "pending"
    /\ file_config' = rename(file_config, file_backup)[1]
    /\ file_backup' = rename(file_config, file_backup)[2]
    /\ save_pc' = "backed_up"
    /\ UNCHANGED <<saveRest, file_temp>>

\* save_config, "open(temp_file, 'w')": the file exists and is empty.
SaveOpenTemp ==
    /\ save_pc = "backed_up"
    /\ file_temp' = "partial"
    /\ save_pc' = "writing"
    /\ UNCHANGED <<saveRest, file_config, file_backup, saving, save_old, loaded, saves>>

\* save_config, json.dump and the close of the file; done: it went through.
\* Else OSError or another exception was raised and the except clause
\* renames the backup onto the configuration file.
SaveWriteTemp(done) ==
    /\ save_pc = "writing"
    /\ IF done
       THEN /\ file_temp' = saving
            /\ save_pc' = "temp_written"
            /\ UNCHANGED <<file_config, file_backup>>
       ELSE /\ file_config' = rename(file_backup, file_config)[2]
            /\ file_backup' = rename(file_backup, file_config)[1]
            /\ save_pc' = "idle"
            /\ UNCHANGED file_temp
    /\ UNCHANGED <<saveRest, saving, save_old, loaded, saves>>

\* save_config, "os.rename(temp_file, self.config_file)"
SaveRename ==
    /\ save_pc = "temp_written"
    /\ file_temp' = rename(file_temp, file_config)[1]
    /\ file_config' = rename(file_temp, file_config)[2]
    /\ save_pc' = "idle"
    /\ UNCHANGED <<saveRest, file_backup, saving, save_old, loaded, saves>>

\* The process stops inside save_config: power loss, watchdog or reset.
SaveStop ==
    /\ save_pc \in {"backed_up", "writing", "temp_written"}
    /\ save_pc' = "stopped"
    /\ UNCHANGED <<saveRest, file_config, file_backup, file_temp, saving, save_old,
                   loaded, saves>>

\* load_config, at the next start after a stop or at any time between saves
LoadConfig ==
    /\ save_pc \in {"idle", "stopped", "recovered"}
    /\ loaded' = load_config(file_config, file_backup)
    /\ save_pc' = IF save_pc = "idle" THEN "idle" ELSE "recovered"
    /\ UNCHANGED <<saveRest, file_config, file_backup, file_temp, saving, save_old,
                   saves>>

NextSave ==
    \/ SaveBackup
    \/ SaveOpenTemp
    \/ \E done \in BOOLEAN : SaveWriteTemp(done)
    \/ SaveRename
    \/ SaveStop
    \/ LoadConfig

SpecSave == SaveInit /\ [][NextSave]_vars

\* C34: save_config is an atomic write: when the process stopped inside
\* save_config over an existing configuration, the next load_config returns
\* the complete old configuration or the complete new one.
C34_SaveIsAtomic ==
    (save_pc = "recovered" /\ save_old # "absent") => loaded \in {save_old, saving}

\* This step enables w again after the failure budget had disabled it.
ReEnabled(w) ==
    /\ ~enabled[w]
    /\ OverBudget(Count(w))
    /\ enabled'[w]

\* C35: a widget that the failure budget disabled and that update_config
\* enables again starts with a full budget: its consecutive-failure count
\* is 0 after the re-enabling.
C35_ReEnabledHasFullBudget ==
    [][\A w \in Plugins : ReEnabled(w) => Count(w)' = 0]_vars

\* ------------------------------------------- add_plugin after start()
\* DisplayScheduler.add_plugin on the running scheduler, for a plugin that
\* remove_plugin had dropped: a PluginTask whose task is None.
AddPlugin(w) ==
    /\ sched = "display" /\ running /\ MayRun
    /\ ~active_plugins[w].present
    /\ enabled[w]
    /\ active_plugins' = [active_plugins EXCEPT ![w] = add_plugin(w)]
    /\ UNCHANGED <<netVars, setupVars, now, running, online, pluginVars, current_plugin,
                   last_rotation, ssVars, dispVars, obsVars, envVars>>

\* The scenario: the display scheduler of the stop scenario.
AddInit ==
    /\ StopInit
    /\ sched = "display"

\* The display scheduler with plugins removed and added while it runs.
NextAdd ==
    \/ Tick
    \/ Start
    \/ \E w \in Plugins : PullTaskWake(w)
    \/ \E w \in Plugins : \E out \in AllOutcomes : PullTaskDone(w, out)
    \/ MainBegin
    \/ \E r \in {"drew", "nothing"} : MainRender(r)
    \/ DisplaySleep
    \/ \E w \in Plugins : RemovePlugin(w)
    \/ \E w \in Plugins : AddPlugin(w)

SpecAdd == AddInit /\ [][NextAdd]_vars

\* C36: while DisplayScheduler is running, every enabled pull-type plugin of
\* active_plugins has a live pull loop, whenever it was added.
C36_EveryPluginHasPullLoop ==
    (sched = "display" /\ running) =>
        \A w \in Plugins :
            (active_plugins[w].present /\ enabled[w] /\ Pullable(w)) =>
                active_plugins[w].pc # "none"

\* Since when the current screen has been current: since the last
\* rotation, and since start-up while last_rotation holds the 0 of
\* ScreenManager.__init__.
CurrentSince == IF last_rotation = 0 THEN BootTime ELSE last_rotation

\* C37: with more than one screen, every screen that becomes current, the
\* first one after start-up included, stays current for at least
\* rotation_interval seconds before the render loop rotates away from it.
C37_ScreenStaysItsInterval ==
    [][(sched = "screen" /\ current_screen_index' # current_screen_index)
          => now - CurrentSince >= rotation_interval]_vars

\* --------------------------------------------- remove_plugin by name
\* Plugin names as sequences of pieces: "clock", "clock2" and "news"; the
\* first is a prefix of the second.
PluginNames == {<<"clock">>, <<"clock", "2">>, <<"news">>}

\* add_plugin: the keys f"{metadata.name}_pull" and f"{metadata.name}_display"
PullKey(name) == name \o <<"_pull">>
DisplayKey(name) == name \o <<"_display">>
TaskKeys(name) == {PullKey(name), DisplayKey(name)}

\* str.startswith
startswith(str, prefix) ==
    /\ Len(prefix) <= Len(str)
    /\ SubSeq(str, 1, Len(prefix)) = prefix

prefixRest == <<coreRest, mainVars, instVars, saveVars, bufVars>>

\* The scenario: a display scheduler that holds no plugin yet.
PrefixInit ==
    /\ sched = "display"
    /\ faulty = "clock"
    /\ online = FALSE
    /\ screen_count = Len(Screens)
    /\ RegistryIdle
    /\ ScenarioIdle
    /\ SchedulerInit
    /\ NetworkManagerInit(DefaultRetryDelay, TRUE)

\* DisplayScheduler.add_plugin for an enabled plugin of that name; pull
\* says whether its refresh type is "pull".
AddByName(name, pull) ==
    /\ task_names' = task_names \cup (IF pull THEN TaskKeys(name) ELSE {DisplayKey(name)})
    /\ cancelled_names' = cancelled_names \ TaskKeys(name)
    /\ UNCHANGED <<prefixRest, current_name>>

\* _main_loop puts a plugin that has a display task on the display.
ShowByName(name) ==
    /\ DisplayKey(name) \in task_names
    /\ current_name' = name
    /\ UNCHANGED <<prefixRest, task_names, cancelled_names>>

\* DisplayScheduler.remove_plugin(plugin_name)
RemoveByName(name) ==
    /\ LET removed == {task_name \in task_names : startswith(task_name, name)}
       IN  /\ task_names' = task_names \ removed
           /\ cancelled_names' = cancelled_names \cup removed
    /\ current_name' = IF current_name # <<>> /\ current_name = name
                       THEN <<>> ELSE current_name
    /\ UNCHANGED prefixRest

NextPrefix ==
    \/ \E name \in PluginNames : \E pull \in BOOLEAN : AddByName(name, pull)
    \/ \E name \in PluginNames : ShowByName(name)
    \/ \E name \in PluginNames : RemoveByName(name)

SpecPrefix == PrefixInit /\ [][NextPrefix]_vars

\* C38: remove_plugin(name) removes and cancels only the tasks of the
\* plugin called name: the tasks of every plugin of another name, a name
\* that begins with name included, stay in active_plugins and are not
\* cancelled, and current_plugin is cleared only if it is that plugin.
C38_RemovesOnlyNamedPlugin ==
    [][\A name \in PluginNames : RemoveByName(name) =>
          /\ \A other \in PluginNames \ {name} :
                /\ TaskKeys(other) \cap task_names' = TaskKeys(other) \cap task_names
                /\ TaskKeys(other) \cap cancelled_names' =
                       TaskKeys(other) \cap cancelled_names
          /\ (current_name # name => current_name' = current_name)]_vars

\* ------------------------------------------------------ DisplayEngine
\* What a render may draw with.
DrawPlugins == {"clock", "weather", "ticker"}

bufRest == <<coreRest, mainVars, instVars, saveVars, prefixVars>>

\* The scenario: a display engine whose buffers are not allocated yet.
EngineInit ==
    /\ sched = "screen"
    /\ faulty = "clock"
    /\ online = FALSE
    /\ screen_count = Len(Screens)
    /\ RegistryIdle
    /\ ScenarioIdle
    /\ SchedulerInit
    /\ NetworkManagerInit(DefaultRetryDelay, TRUE)

\* DisplayEngine.get_buffer
get_buffer == current_buffer

\* _init_buffers: two bitmaps, "self.current_buffer = self.back_buffer" and
\* the TileGrid made over the front buffer.
InitBuffers ==
    /\ engine_pc = "new"
    /\ engine_pc' = "ready"
    /\ front_buffer' = 1
    /\ back_buffer' = 2
    /\ current_buffer' = 2
    /\ tile_bitmap' = 1
    /\ UNCHANGED <<bufRest, bitmaps, updates>>

\* _display_loop: "buffer = self.display_engine.get_buffer()" and
\* "buffer.fill(0)"
FillBuffer ==
    /\ engine_pc = "ready"
    /\ bitmaps' = [bitmaps EXCEPT ![get_buffer] = {}]
    /\ UNCHANGED <<bufRest, engine_pc, front_buffer, back_buffer, current_buffer,
                   tile_bitmap, updates>>

\* render_screen: a plugin renders into the buffer it was handed.
DrawInto(w) ==
    /\ engine_pc = "ready"
    /\ bitmaps' = [bitmaps EXCEPT ![get_buffer] = @ \cup {w}]
    /\ UNCHANGED <<bufRest, engine_pc, front_buffer, back_buffer, current_buffer,
                   tile_bitmap, updates>>

\* Variant: a swap that leaves current_buffer where it was.
swap_buffers_stale(front, back) ==
    [front |-> back, back |-> front, current |-> back, tile |-> back]

\* swap_buffers: front_buffer, back_buffer, current_buffer and
\* tile_grid.bitmap after the call
swap_buffers(front, back) ==
    [front |-> back, back |-> front, current |-> front, tile |-> back]

\* DisplayEngine.update: swap_buffers, then display.refresh(), whose
\* failure the except clause swallows.
Update ==
    /\ engine_pc = "ready"
    /\ updates < MaxUpdates
    /\ updates' = updates + 1
    /\ front_buffer' = swap_buffers(front_buffer, back_buffer).front
    /\ back_buffer' = swap_buffers(front_buffer, back_buffer).back
    /\ current_buffer' = swap_buffers(front_buffer, back_buffer).current
    /\ tile_bitmap' = swap_buffers(front_buffer, back_buffer).tile
    /\ UNCHANGED <<bufRest, engine_pc, bitmaps>>

\* DisplayEngine.cleanup: front_buffer and back_buffer are set to None;
\* current_buffer and the tile grid keep their bitmaps.
Cleanup ==
    /\ engine_pc = "ready"
    /\ engine_pc' = "cleaned"
    /\ front_buffer' = 0
    /\ back_buffer' = 0
    /\ UNCHANGED <<bufRest, current_buffer, tile_bitmap, bitmaps, updates>>

NextEngine ==
    \/ InitBuffers
    \/ FillBuffer
    \/ \E w \in DrawPlugins : DrawInto(w)
    \/ Update
    \/ Cleanup

SpecEngine == EngineInit /\ [][NextEngine]_vars

====
